---- MODULE Spec2Model ----
(***************************************************************************)
(* A model of the xsearch scanning engine (internal/scanner/engine.go):    *)
(* the three-phase traversal controller, the producer / worker / consumer  *)
(* pipeline of every phase invocation, the result classifier and the       *)
(* bookkeeping (visited set, directory registry, output dedup set).        *)
(*                                                                         *)
(* Strings are sequences of one-character strings, so that the string      *)
(* functions of the code (TrimRight, HasPrefix, SplitN, Sprintf("%d:%s"))  *)
(* are computed, not assumed.                                              *)
(***************************************************************************)
EXTENDS Integers, Sequences, FiniteSets, TLC

\* ------------------------------------------------------------------ bounds

\* Config.MaxDepth is drawn from 0..MaxDepthBound.
MaxDepthBound == 1

\* The target answers at most MaxHits probes with something other than a
\* plain 404 during one run.
MaxHits == 2

\* The length of the wordlist of the runs that drive the soft-404 size
\* tracker past its threshold.
NumTrackerWords == 6

\* Config.TargetURL ends with up to MaxSlashes slashes.
MaxSlashes == 2

\* ------------------------------------------------------- program constants

\* jobs := make(chan Job, e.config.Threads*4)
ChanFactor == 4

\* The three calibration patterns of calibrateMultiple.
NumPatterns == 3

\* trackSoft404Size: "if size < 100".
SmallSize == 100

\* trackSoft404Size: "if count > 10".
Soft404Threshold == 10

\* ----------------------------------------------------------------- strings

Slash == "/"

\* The characters of the model in byte order (sort.Strings compares bytes).
Alphabet == << " ", "#", ".", "/", "0", "1", "2", "3", "4", "5", "6", "7", "8", "9",
               ":", "a", "b", "c", "d", "g", "h", "i", "l", "m", "n", "o", "p", "s", "t", "x" >>

CharCode(c) == CHOOSE i \in 1..Len(Alphabet) : Alphabet[i] = c

\* strings.HasPrefix
HasPrefix(s, p) == Len(p) <= Len(s) /\ SubSeq(s, 1, Len(p)) = p

\* strings.HasSuffix
HasSuffix(s, p) == Len(p) <= Len(s) /\ SubSeq(s, Len(s) - Len(p) + 1, Len(s)) = p

\* strings.TrimPrefix
TrimPrefix(s, p) == IF HasPrefix(s, p) THEN SubSeq(s, Len(p) + 1, Len(s)) ELSE s

\* strings.Contains(s, c) for a one-character c
Contains(s, c) == \E i \in 1..Len(s) : s[i] = c

\* strings.TrimRight(s, "/"): all trailing slashes go.
RECURSIVE TrimRight(_)
TrimRight(s) ==
    IF Len(s) > 0 /\ s[Len(s)] = Slash THEN TrimRight(SubSeq(s, 1, Len(s) - 1)) ELSE s

\* strings.TrimSpace, for the space character.
RECURSIVE TrimSpaceLeft(_)
TrimSpaceLeft(s) == IF Len(s) > 0 /\ s[1] = " " THEN TrimSpaceLeft(Tail(s)) ELSE s

RECURSIVE TrimSpaceRight(_)
TrimSpaceRight(s) ==
    IF Len(s) > 0 /\ s[Len(s)] = " " THEN TrimSpaceRight(SubSeq(s, 1, Len(s) - 1)) ELSE s

TrimSpace(s) == TrimSpaceRight(TrimSpaceLeft(s))

\* strings.LastIndex(s, "/") as a 1-based position, 0 when there is none.
LastIndex(s, c) ==
    IF Contains(s, c) THEN CHOOSE i \in 1..Len(s) : s[i] = c /\ \A j \in (i+1)..Len(s) : s[j] # c
    ELSE 0

\* The position of the first c in s, 0 when there is none.
IndexOf(s, c) ==
    IF Contains(s, c) THEN CHOOSE i \in 1..Len(s) : s[i] = c /\ \A j \in 1..(i-1) : s[j] # c
    ELSE 0

\* fmt.Sprintf("%d", n) for n >= 0.
Digit(n) == Alphabet[CharCode("0") + n]

RECURSIVE FormatInt(_)
FormatInt(n) == IF n < 10 THEN << Digit(n) >> ELSE FormatInt(n \div 10) \o << Digit(n % 10) >>

\* Byte-wise string order, as sort.Strings uses.
RECURSIVE StrLess(_, _)
StrLess(s, t) ==
    IF Len(t) = 0 THEN FALSE
    ELSE IF Len(s) = 0 THEN TRUE
    ELSE IF s[1] # t[1] THEN CharCode(s[1]) < CharCode(t[1])
    ELSE StrLess(Tail(s), Tail(t))

\* sort.Strings on a sequence without duplicates.
RECURSIVE SortStrings(_)
SortStrings(q) ==
    IF Len(q) = 0 THEN << >>
    ELSE LET i == CHOOSE i \in 1..Len(q) : \A j \in 1..Len(q) : j = i \/ ~StrLess(q[j], q[i])
             rest == [k \in 1..(Len(q) - 1) |-> IF k < i THEN q[k] ELSE q[k + 1]]
         IN  << q[i] >> \o SortStrings(rest)

Range(q) == { q[i] : i \in 1..Len(q) }

\* A map write: m[k] = v.
MapPut(m, k, v) == [x \in DOMAIN m \cup {k} |-> IF x = k THEN v ELSE m[x]]

\* A counter per key: m[k]++ (a missing key counts 0).
MapGet(m, k) == IF k \in DOMAIN m THEN m[k] ELSE 0
MapInc(m, k) == MapPut(m, k, MapGet(m, k) + 1)

EmptyMap == [x \in {} |-> 0]

\* ------------------------------------------------- pure engine functions

\* normalizeURL: trailing slashes stripped, "https://" prepended when the
\* target has no protocol prefix.
HttpPrefix == << "h", "t", "t", "p", ":", "/", "/" >>
HttpsPrefix == << "h", "t", "t", "p", "s", ":", "/", "/" >>

normalizeURLUntrimmed(url) ==
    IF ~HasPrefix(url, HttpPrefix) /\ ~HasPrefix(url, HttpsPrefix) THEN HttpsPrefix \o url ELSE url

normalizeURL(url) ==
    LET u == TrimRight(url)
    IN  IF ~HasPrefix(u, HttpPrefix) /\ ~HasPrefix(u, HttpsPrefix) THEN HttpsPrefix \o u ELSE u

\* e.visited.Load(url): is the URL in the visited set.
IsVisitedNever(vis, url) == FALSE

IsVisited(vis, url) == url \in DOMAIN vis

\* e.visited.Store(url, depth)
MarkVisitedForgotten(vis, url, depth) == vis

MarkVisited(vis, url, depth) == MapPut(vis, url, depth)

\* buildDirectoryURLs, the loop over the remaining words: the visited set
\* and the URL list after it.
RECURSIVE buildDirectoryURLsFrom(_, _, _, _, _, _)
buildDirectoryURLsFrom(words, basePath, depth, addSlash, vis, acc) ==
    IF words = << >> THEN [visited |-> vis, urls |-> acc]
    ELSE LET w0 == TrimSpace(Head(words))
             word == TrimPrefix(w0, << Slash >>)
             fullURL == basePath \o << Slash >> \o word
             slashURL == fullURL \o << Slash >>
         IN  IF w0 = << >> \/ HasPrefix(w0, << "#" >>) \/ Contains(word, ".")
                THEN buildDirectoryURLsFrom(Tail(words), basePath, depth, addSlash, vis, acc)
             ELSE IF IsVisited(vis, fullURL)
                THEN buildDirectoryURLsFrom(Tail(words), basePath, depth, addSlash, vis, acc)
             ELSE LET vis1 == MarkVisited(vis, fullURL, depth)
                      urls1 == Append(acc, fullURL)
                  IN  IF addSlash /\ ~IsVisited(vis1, slashURL)
                         THEN buildDirectoryURLsFrom(Tail(words), basePath, depth, addSlash,
                                                     MarkVisited(vis1, slashURL, depth),
                                                     Append(urls1, slashURL))
                         ELSE buildDirectoryURLsFrom(Tail(words), basePath, depth, addSlash,
                                                     vis1, urls1)

buildDirectoryURLsBare(words, basePath, depth, addSlash, vis) ==
    buildDirectoryURLsFrom(words, basePath, depth, FALSE, vis, << >>)

buildDirectoryURLs(words, basePath, depth, addSlash, vis) ==
    buildDirectoryURLsFrom(words, basePath, depth, addSlash, vis, << >>)

\* buildFileURLs, the inner loop over the extensions of one word.
RECURSIVE buildFileURLsExt(_, _, _, _, _)
buildFileURLsExt(exts, basePath, word, vis, acc) ==
    IF exts = << >> THEN [visited |-> vis, urls |-> acc]
    ELSE LET extURL == basePath \o << Slash >> \o word \o << "." >> \o Head(exts)
         IN  IF ~IsVisited(vis, extURL)
                THEN buildFileURLsExt(Tail(exts), basePath, word, MarkVisited(vis, extURL, 0),
                                      Append(acc, extURL))
                ELSE buildFileURLsExt(Tail(exts), basePath, word, vis, acc)

\* buildFileURLs, the loop over the remaining words.
RECURSIVE buildFileURLsFrom(_, _, _, _, _)
buildFileURLsFrom(words, exts, basePath, vis, acc) ==
    IF words = << >> THEN [visited |-> vis, urls |-> acc]
    ELSE LET w0 == TrimSpace(Head(words))
             word == TrimPrefix(w0, << Slash >>)
         IN  IF w0 = << >> \/ HasPrefix(w0, << "#" >>)
                THEN buildFileURLsFrom(Tail(words), exts, basePath, vis, acc)
                ELSE LET r == buildFileURLsExt(exts, basePath, word, vis, acc)
                     IN  buildFileURLsFrom(Tail(words), exts, basePath, r.visited, r.urls)

buildFileURLs(words, exts, basePath, vis) ==
    buildFileURLsFrom(words, exts, basePath, vis, << >>)

\* isSoft404: the result matches a calibration baseline by hash or by size.
isSoft404HashOnly(bls, hash, size) ==
    \E i \in 1..Len(bls) : hash # "" /\ bls[i].hash = hash

isSoft404(bls, hash, size) ==
    \E i \in 1..Len(bls) :
        \/ hash # "" /\ bls[i].hash = hash
        \/ bls[i].size > 0 /\ size = bls[i].size

\* trackSoft404Size: the tracker after the call and whether the result is
\* dropped.
trackSoft404SizeAnyStatus(sizes, size, statusCode) ==
    IF size < SmallSize
    THEN [sizes |-> MapInc(sizes, size), drop |-> MapGet(sizes, size) + 1 > Soft404Threshold]
    ELSE [sizes |-> sizes, drop |-> FALSE]

trackSoft404SizeOnce(sizes, size, statusCode) ==
    IF statusCode # 403 /\ statusCode # 401 THEN [sizes |-> sizes, drop |-> FALSE]
    ELSE IF size < SmallSize
         THEN [sizes |-> MapInc(sizes, size), drop |-> MapGet(sizes, size) + 1 = Soft404Threshold + 1]
         ELSE [sizes |-> sizes, drop |-> FALSE]

trackSoft404Size(sizes, size, statusCode) ==
    IF statusCode # 403 /\ statusCode # 401 THEN [sizes |-> sizes, drop |-> FALSE]
    ELSE IF size < SmallSize
         THEN [sizes |-> MapInc(sizes, size), drop |-> MapGet(sizes, size) + 1 > Soft404Threshold]
         ELSE [sizes |-> sizes, drop |-> FALSE]

\* isDirectory
isDirectoryBySlash(url, statusCode) ==
    \/ statusCode \in {301, 302, 307, 308}
    \/ HasSuffix(url, << Slash >>)

isDirectory(url, statusCode) ==
    \/ statusCode \in {301, 302, 307, 308}
    \/ HasSuffix(url, << Slash >>)
    \/ LET path == TrimRight(url)
           idx == LastIndex(path, Slash)
       IN  idx # 0 /\ ~Contains(SubSeq(path, idx + 1, Len(path)), ".")

\* isReliableResult
isReliableResult(statusCode) == statusCode \in {200, 301, 302, 307, 308, 403, 401}

\* The statuses handleDirectoryResults registers for recursion.
IsRecursable(statusCode) == statusCode \in {200, 301, 302, 307, 308}

\* handleDirectoryResults: whether a found result enters the registry.
ShouldRegister(isDir, statusCode, depth, recursive, maxDepth) ==
    isDir /\ IsRecursable(statusCode)

\* fmt.Sprintf("%d:%s", depth, url): a registry entry.
RegistryEntryOfChildren(depth, url) == FormatInt(depth + 1) \o << ":" >> \o url

RegistryEntry(depth, url) == FormatInt(depth) \o << ":" >> \o url

\* Printer.PrintResult: whether the printer accepts (prints) the status.
PrintResultUnfiltered(statusCodes, statusCode) == statusCode # 404

PrintResult(statusCodes, statusCode) ==
    LET showAll == statusCodes = {}
    IN  IF ~showAll /\ statusCode \notin statusCodes THEN FALSE
        ELSE IF showAll /\ statusCode = 404 THEN FALSE
        ELSE TRUE

\* The key writeUniqueURL stores in outputURLs.
OutputKeyRaw(url) == url

OutputKey(url) == TrimRight(url)

\* getDirectoriesAtDepth
getDirectoriesAtDepthByDigits(reg, depth) ==
    LET prefix == FormatInt(depth)
        F[i \in 0..Len(reg)] ==
            IF i = 0 THEN << >>
            ELSE IF HasPrefix(reg[i], prefix)
                 THEN Append(F[i - 1], SubSeq(reg[i], IndexOf(reg[i], ":") + 1, Len(reg[i])))
            ELSE F[i - 1]
    IN  F[Len(reg)]

getDirectoriesAtDepthUntrimmed(reg, depth) ==
    SelectSeq(reg, LAMBDA d : HasPrefix(d, FormatInt(depth) \o << ":" >>))

getDirectoriesAtDepth(reg, depth) ==
    LET prefix == FormatInt(depth) \o << ":" >>
        F[i \in 0..Len(reg)] ==
            IF i = 0 THEN << >>
            ELSE IF HasPrefix(reg[i], prefix) THEN Append(F[i - 1], TrimPrefix(reg[i], prefix))
            ELSE F[i - 1]
    IN  F[Len(reg)]

\* getAllDirectories: strings.SplitN(d, ":", 2), first occurrences, sorted.
getAllDirectoriesRepeated(reg) ==
    LET F[i \in 0..Len(reg)] ==
            IF i = 0 THEN << >>
            ELSE LET d == reg[i]
                     k == IndexOf(d, ":")
                 IN  IF k # 0 THEN Append(F[i - 1], SubSeq(d, k + 1, Len(d))) ELSE F[i - 1]
    IN  SortStrings(F[Len(reg)])

getAllDirectories(reg) ==
    LET F[i \in 0..Len(reg)] ==
            IF i = 0 THEN << >>
            ELSE LET d == reg[i]
                     k == IndexOf(d, ":")
                     rest == SubSeq(d, k + 1, Len(d))
                 IN  IF k # 0 /\ rest \notin Range(F[i - 1]) THEN Append(F[i - 1], rest)
                     ELSE F[i - 1]
    IN  SortStrings(F[Len(reg)])

\* workerFast: does the HEAD result need the verifying GET.
needsVerificationFastAnyStatus(headErr, statusCode, filterCodes) ==
    /\ ~headErr
    /\ statusCode # 404
    /\ statusCode \notin filterCodes

needsVerificationFast(headErr, statusCode, filterCodes) ==
    /\ ~headErr
    /\ statusCode # 404
    /\ statusCode \notin filterCodes
    /\ statusCode \in {200, 301, 302, 403}

\* workerFiles: does the HEAD result need the verifying GET.
needsVerificationFilesListed(headErr, statusCode, filterCodes) ==
    /\ ~headErr
    /\ statusCode # 404
    /\ statusCode \notin filterCodes
    /\ statusCode \in {200, 301, 302, 403}

needsVerificationFiles(headErr, statusCode, filterCodes) ==
    /\ ~headErr
    /\ statusCode # 404
    /\ statusCode \notin filterCodes

\* ------------------------------------------------------------ environment

\* The response bodies of the target: the real page ("pg"), the site's
\* not-found page ("nf"), another page of the same length ("n2"), a short
\* and a long "forbidden" body ("fb", "bg"), a page served chunked ("ck"),
\* and the empty body ("em").
BodySize(b) ==
    CASE b = "pg" -> 7 [] b = "nf" -> 5 [] b = "n2" -> 5 [] b = "fb" -> 3 [] b = "bg" -> 150
      [] b = "ck" -> 9 [] OTHER -> 0

\* md5 of a body: distinct bodies give distinct hashes.
BodyHash(b) == b

\* What the target serves at a URL: a status and a body. NotFoundPage is the
\* usual answer for a path that does not exist.
NotFoundPage == [status |-> 404, body |-> "nf"]

\* The targets a run is pointed at: the page served for a path that does
\* not exist (Missing), the pages served at given URLs (Site), the pages the
\* target may serve at any other URL instead of Missing (Pages), whether its
\* HEAD and GET requests may fail in transport, and whether the calibration
\* requests may fail.
Targets ==
    { [ Missing |-> NotFoundPage, Site |-> EmptyMap,
        Pages |-> { [status |-> 200, body |-> "pg"], [status |-> 201, body |-> "pg"],
                    [status |-> 403, body |-> "fb"] },
        HeadFails |-> FALSE, GetFails |-> FALSE, CalibFails |-> FALSE ] }

\* resp.ContentLength of the answer to a HEAD: the body's length, or -1 for
\* a body served without a Content-Length header ("ck").
ContentLength(b) == IF b = "ck" THEN -1 ELSE BodySize(b)

\* httpclient.HeadRequest: the status and the Content-Length, or an error.
HeadRequest(page, fails) ==
    IF fails THEN [err |-> TRUE, status |-> 0, size |-> 0]
    ELSE [err |-> FALSE, status |-> page.status, size |-> ContentLength(page.body)]

\* httpclient.RequestWithBody: the status, the body's length and its hash,
\* or an error.
RequestWithBody(page, fails) ==
    IF fails THEN [err |-> TRUE, status |-> 0, size |-> 0, hash |-> ""]
    ELSE [err |-> FALSE, status |-> page.status, size |-> BodySize(page.body),
          hash |-> BodyHash(page.body)]

\* The worker counts (Config.Threads) of the model.
ThreadCounts == {1, 2}

\* The configurations a run is started with.
Configs ==
    { [ TargetURL |-> << "t", "/" >>, Words |-> << << "a" >> >>, Threads |-> th,
        Extensions |-> ex, Recursive |-> rc, MaxDepth |-> md, AddSlash |-> sl,
        FilterCodes |-> {}, ExcludeSizes |-> {}, StatusCodes |-> {},
        OutputEnabled |-> TRUE ] :
      th \in ThreadCounts, ex \in { << >>, << << "x" >> >> }, rc \in BOOLEAN,
      md \in 0..MaxDepthBound, sl \in BOOLEAN }

\* ------------------------------------------------------------------ state

VARIABLES
    cfg,            \* Engine.config (with Writer.enabled as OutputEnabled)
    target,         \* the target the run is pointed at
    ctxDone,        \* Engine.ctx is cancelled
    runPC,          \* where Run is
    retPC,          \* where Run continues when the current scan returns
    retval,         \* what Run returned ("none" while it runs)
    baseURL,        \* Run's baseURL
    curDepth,       \* Run's depth loop variable (phase 2)
    dirs,           \* Run's dirs (phase 2)
    allDirs,        \* Run's allDirs (phase 3)
    dirIdx,         \* the position of the range loop over dirs / allDirs
    calPending,     \* calibration goroutines that have not finished
    baselines,      \* Engine.baselines
    visited,        \* Engine.visited
    directories,    \* Engine.directories
    outputURLs,     \* Engine.outputURLs
    written,        \* Writer.urls
    soft404Sizes,   \* Engine.soft404Sizes
    processed,      \* Engine.processed
    found,          \* Engine.found
    errors,         \* Engine.errors
    mode,           \* the running scan: "dir" (scanDirectoriesFast), "file" (scanFiles)
    scanDepth,      \* scanDirectoriesFast's depth
    urls,           \* the scan's urls
    prodPC,         \* the job-sending goroutine
    prodIdx,        \* its position in urls
    jobs,           \* the jobs channel's buffer
    jobsClosed,     \* close(jobs) happened
    results,        \* the results channel's buffer
    resultsClosed,  \* close(results) happened
    wpc,            \* each worker's position
    wjob,           \* each worker's job
    wres,           \* each worker's result
    hpc,            \* the result handler
    hits,           \* probes the target answered with other than a plain 404
    jobsBuilt,      \* history: how often each URL was returned by a URL builder
    heads,          \* history: HEAD requests issued per URL
    gets,           \* history: GET requests issued per URL
    foundLog,       \* history: the results counted as found
    calibOK,        \* history: the calibration patterns whose probe succeeded
    dropLog,        \* history: the results dropped, with the classifier step that dropped them
    probeLog        \* history: the probes made, with the HEAD's and the GET's outcome

runVars == << runPC, retPC, retval, baseURL, curDepth, dirs, allDirs, dirIdx >>
calVars == << calPending, baselines >>
bookVars == << visited, directories, outputURLs, written, soft404Sizes, processed, found, errors >>
pipeVars == << mode, scanDepth, urls, prodPC, prodIdx, jobs, jobsClosed, results,
               resultsClosed, wpc, wjob, wres, hpc >>
histVars == << hits, jobsBuilt, heads, gets, foundLog, calibOK, dropLog, probeLog >>
vars == << cfg, target, ctxDone, runVars, calVars, bookVars, pipeVars, histVars >>

NoJob == [url |-> << >>, depth |-> 0]
NoResult == [url |-> << >>, status |-> 0, size |-> 0, hash |-> "", depth |-> 0, err |-> FALSE]

Workers == 1..cfg.Threads

\* make(chan Job, e.config.Threads*4)
CapacityOfURLs == Len(urls)

Capacity == cfg.Threads * ChanFactor

\* NewEngine, before Run is called.
InitWith(c, t) ==
    /\ cfg = c
    /\ target = t
    /\ ctxDone = FALSE
    /\ runPC = "init" /\ retPC = "none" /\ retval = "none"
    /\ baseURL = << >> /\ curDepth = 0 /\ dirs = << >> /\ allDirs = << >> /\ dirIdx = 0
    /\ calPending = {} /\ baselines = << >>
    /\ visited = EmptyMap /\ directories = << >> /\ outputURLs = {} /\ written = << >>
    /\ soft404Sizes = EmptyMap /\ processed = 0 /\ found = 0 /\ errors = 0
    /\ mode = "none" /\ scanDepth = 0 /\ urls = << >>
    /\ prodPC = "none" /\ prodIdx = 0
    /\ jobs = << >> /\ jobsClosed = FALSE /\ results = << >> /\ resultsClosed = FALSE
    /\ wpc = [w \in 1..c.Threads |-> "none"]
    /\ wjob = [w \in 1..c.Threads |-> NoJob]
    /\ wres = [w \in 1..c.Threads |-> NoResult]
    /\ hpc = "none"
    /\ hits = 0 /\ jobsBuilt = EmptyMap /\ heads = EmptyMap /\ gets = EmptyMap
    /\ foundLog = {} /\ calibOK = {} /\ dropLog = {} /\ probeLog = {}

Init == \E c \in Configs, t \in Targets : InitWith(c, t)

\* -------------------------------------------------------------- Stop

\* Engine.Stop: e.cancel().
Stop ==
    /\ ~ctxDone
    /\ runPC # "done"
    /\ ctxDone' = TRUE
    /\ UNCHANGED << cfg, target, runVars, calVars, bookVars, pipeVars, histVars >>

\* ------------------------------------------------------- calibration

\* Run up to the start of the calibration goroutines.
RunStart ==
    /\ runPC = "init"
    /\ baseURL' = normalizeURL(cfg.TargetURL)
    /\ calPending' = 1..NumPatterns
    /\ runPC' = "calib"
    /\ UNCHANGED << cfg, target, ctxDone, retPC, retval, curDepth, dirs, allDirs, dirIdx, baselines,
                    bookVars, pipeVars, histVars >>

\* The synthetic path of calibration pattern p (timestamp-salted in the code:
\* distinct from every wordlist URL).
CalibURL(p) == baseURL \o << Slash, "c" >> \o FormatInt(p)

\* "if result.Error == nil && result.StatusCode != 0": the probe counts.
CalibSucceededAlways(r) == TRUE

CalibSucceeded(r) == ~r.err /\ r.status # 0

\* One calibration goroutine: a GET, and on success a baseline appended.
CalibProbe(p) ==
    /\ runPC = "calib"
    /\ p \in calPending
    /\ \E fails \in BOOLEAN :
          LET r == RequestWithBody(target.Missing, fails)
          IN  /\ fails => target.CalibFails
              /\ baselines' = IF CalibSucceeded(r)
                                 THEN Append(baselines, [hash |-> r.hash, size |-> r.size])
                                 ELSE baselines
              /\ calibOK' = IF fails THEN calibOK ELSE calibOK \cup {p}
    /\ gets' = MapInc(gets, CalibURL(p))
    /\ calPending' = calPending \ {p}
    /\ UNCHANGED << cfg, target, ctxDone, runVars, bookVars, pipeVars, hits, jobsBuilt, heads, foundLog,
                    dropLog, probeLog >>

\* ---------------------------------------------------------- scan start

\* Counting the URLs a builder returned.
RECURSIVE CountAll(_, _)
CountAll(m, q) == IF q = << >> THEN m ELSE CountAll(MapInc(m, Head(q)), Tail(q))

\* The pipeline of a scan, set up: channels made, workers, handler and
\* producer started.
StartPipeline(m, d, us, ret) ==
    /\ mode' = m /\ scanDepth' = d /\ urls' = us
    /\ prodPC' = "send" /\ prodIdx' = 1
    /\ jobs' = << >> /\ jobsClosed' = FALSE
    /\ results' = << >> /\ resultsClosed' = FALSE
    /\ wpc' = [w \in Workers |-> "idle"]
    /\ wjob' = [w \in Workers |-> NoJob]
    /\ wres' = [w \in Workers |-> NoResult]
    /\ hpc' = "run"
    /\ runPC' = "wgwait" /\ retPC' = ret

\* scanDirectoriesFast(basePath, d) up to wg.Wait(); it returns at once when
\* no URL is built.
scanDirectoriesFast(basePath, d, ret) ==
    LET b == buildDirectoryURLs(cfg.Words, TrimRight(basePath), d, cfg.AddSlash, visited)
    IN  /\ visited' = b.visited
        /\ jobsBuilt' = CountAll(jobsBuilt, b.urls)
        /\ IF b.urls = << >>
              THEN runPC' = ret /\ UNCHANGED << retPC, pipeVars >>
              ELSE StartPipeline("dir", d, b.urls, ret)

\* scanFiles(basePath) up to wg.Wait().
scanFiles(basePath, ret) ==
    LET b == buildFileURLs(cfg.Words, cfg.Extensions, TrimRight(basePath), visited)
    IN  /\ visited' = b.visited
        /\ jobsBuilt' = CountAll(jobsBuilt, b.urls)
        /\ IF b.urls = << >>
              THEN runPC' = ret /\ UNCHANGED << retPC, pipeVars >>
              ELSE StartPipeline("file", 0, b.urls, ret)

\* Run's return: nil on every path, the cancelled ones included.
RunReturnCtxErr == IF ctxDone THEN "ctx.Err" ELSE "nil"

RunReturn == "nil"

Return ==
    /\ runPC' = "done"
    /\ retval' = RunReturn

\* ------------------------------------------------------ Run's phases

\* calibrateMultiple's wg.Wait() returns; phase 1 starts:
\* e.scanDirectoriesFast(baseURL, 0).
Phase1StartUnwaited ==
    /\ runPC = "calib"
    /\ scanDirectoriesFast(baseURL, 0, "phase2")
    /\ UNCHANGED << cfg, target, ctxDone, retval, baseURL, curDepth, dirs, allDirs, dirIdx, calVars,
                    directories, outputURLs, written, soft404Sizes, processed, found, errors,
                    hits, heads, gets, foundLog, calibOK, dropLog, probeLog >>

Phase1Start ==
    /\ runPC = "calib"
    /\ calPending = {}
    /\ scanDirectoriesFast(baseURL, 0, "phase2")
    /\ UNCHANGED << cfg, target, ctxDone, retval, baseURL, curDepth, dirs, allDirs, dirIdx, calVars,
                    directories, outputURLs, written, soft404Sizes, processed, found, errors,
                    hits, heads, gets, foundLog, calibOK, dropLog, probeLog >>

\* Phase 2 is entered: "if e.config.Recursive && len(e.directories) > 0" and
\* the depth loop's first test.
Phase2Enter ==
    /\ runPC = "phase2"
    /\ curDepth' = 1
    /\ runPC' = IF cfg.Recursive /\ Len(directories) > 0 /\ 1 <= cfg.MaxDepth
                   THEN "depth" ELSE "phase3"
    /\ UNCHANGED << cfg, target, ctxDone, retPC, retval, baseURL, dirs, allDirs, dirIdx, calVars,
                    bookVars, pipeVars, histVars >>

\* One turn of the depth loop: the cancellation check, then the directories
\* of the previous depth.
DepthLevel ==
    /\ runPC = "depth"
    /\ IF ctxDone
          THEN Return /\ UNCHANGED << dirs, dirIdx >>
          ELSE LET ds == getDirectoriesAtDepth(directories, curDepth - 1)
               IN  /\ dirs' = ds
                   /\ dirIdx' = 1
                   /\ runPC' = IF Len(ds) = 0 THEN "phase3" ELSE "dir"
                   /\ UNCHANGED retval
    /\ UNCHANGED << cfg, target, ctxDone, retPC, baseURL, curDepth, allDirs, calVars, bookVars,
                    pipeVars, histVars >>

\* One turn of the loop over dirs: the cancellation check, then
\* e.scanDirectoriesFast(dir, depth); after the last directory, depth++.
DirectoryUnit ==
    /\ runPC = "dir"
    /\ IF dirIdx > Len(dirs)
          THEN /\ curDepth' = curDepth + 1
               /\ runPC' = IF curDepth + 1 <= cfg.MaxDepth THEN "depth" ELSE "phase3"
               /\ UNCHANGED << retPC, retval, dirIdx, visited, pipeVars, jobsBuilt >>
          ELSE IF ctxDone
          THEN Return /\ UNCHANGED << retPC, curDepth, dirIdx, visited, pipeVars, jobsBuilt >>
          ELSE /\ scanDirectoriesFast(dirs[dirIdx], curDepth, "dir")
               /\ dirIdx' = dirIdx + 1
               /\ UNCHANGED << retval, curDepth >>
    /\ UNCHANGED << cfg, target, ctxDone, baseURL, dirs, allDirs, calVars, directories, outputURLs,
                    written, soft404Sizes, processed, found, errors, hits, heads, gets,
                    foundLog, calibOK, dropLog, probeLog >>

\* Phase 3 is entered: "if len(e.config.Extensions) > 0", allDirs built.
Phase3Enter ==
    /\ runPC = "phase3"
    /\ IF Len(cfg.Extensions) > 0
          THEN /\ allDirs' = << baseURL >> \o getAllDirectories(directories)
               /\ dirIdx' = 1
               /\ runPC' = "files"
               /\ UNCHANGED retval
          ELSE Return /\ UNCHANGED << allDirs, dirIdx >>
    /\ UNCHANGED << cfg, target, ctxDone, retPC, baseURL, curDepth, dirs, calVars, bookVars,
                    pipeVars, histVars >>

\* One turn of the loop over allDirs: the cancellation check, then
\* e.scanFiles(dir); after the last directory Run returns.
FileUnit ==
    /\ runPC = "files"
    /\ IF dirIdx > Len(allDirs) \/ ctxDone
          THEN Return /\ UNCHANGED << retPC, dirIdx, visited, pipeVars, jobsBuilt >>
          ELSE /\ scanFiles(allDirs[dirIdx], "files")
               /\ dirIdx' = dirIdx + 1
               /\ UNCHANGED retval
    /\ UNCHANGED << cfg, target, ctxDone, baseURL, curDepth, dirs, allDirs, calVars, directories,
                    outputURLs, written, soft404Sizes, processed, found, errors, hits, heads,
                    gets, foundLog, calibOK, dropLog, probeLog >>

\* wg.Wait() returns when every worker has exited; close(results).
WorkersNotWaited ==
    /\ runPC = "wgwait"
    /\ resultsClosed' = TRUE
    /\ runPC' = "reswait"
    /\ UNCHANGED << cfg, target, ctxDone, retPC, retval, baseURL, curDepth, dirs, allDirs, dirIdx,
                    calVars, bookVars, mode, scanDepth, urls, prodPC, prodIdx, jobs,
                    jobsClosed, results, wpc, wjob, wres, hpc, histVars >>

WorkersWaited ==
    /\ runPC = "wgwait"
    /\ \A w \in Workers : wpc[w] = "exit"
    /\ resultsClosed' = TRUE
    /\ runPC' = "reswait"
    /\ UNCHANGED << cfg, target, ctxDone, retPC, retval, baseURL, curDepth, dirs, allDirs, dirIdx,
                    calVars, bookVars, mode, scanDepth, urls, prodPC, prodIdx, jobs,
                    jobsClosed, results, wpc, wjob, wres, hpc, histVars >>

\* resultWg.Wait() returns when the handler has finished; the scan returns.
HandlerNotWaited ==
    /\ runPC = "reswait"
    /\ runPC' = retPC
    /\ UNCHANGED << cfg, target, ctxDone, retPC, retval, baseURL, curDepth, dirs, allDirs, dirIdx,
                    calVars, bookVars, pipeVars, histVars >>

HandlerWaited ==
    /\ runPC = "reswait"
    /\ hpc = "done"
    /\ runPC' = retPC
    /\ UNCHANGED << cfg, target, ctxDone, retPC, retval, baseURL, curDepth, dirs, allDirs, dirIdx,
                    calVars, bookVars, pipeVars, histVars >>

\* ---------------------------------------------------------- producer

\* The Depth a scan's jobs carry: scanFiles sends Job{URL: u, Depth: 0}.
JobDepth == IF mode = "dir" THEN scanDepth ELSE 0

\* The select's send case: jobs <- Job{URL: u, Depth: depth}. Go chooses
\* among the ready cases of a select at random, so the send may be taken
\* whether or not the context is done.
ProducerSend ==
    /\ prodPC = "send"
    /\ prodIdx <= Len(urls)
    /\ Len(jobs) < Capacity
    /\ jobs' = Append(jobs, [url |-> urls[prodIdx], depth |-> JobDepth])
    /\ prodIdx' = prodIdx + 1
    /\ prodPC' = IF prodIdx = Len(urls) THEN "close" ELSE "send"
    /\ UNCHANGED << cfg, target, ctxDone, runVars, calVars, bookVars, mode, scanDepth, urls,
                    jobsClosed, results, resultsClosed, wpc, wjob, wres, hpc, histVars >>

\* The select's case <-e.ctx.Done(): break jobLoop.
ProducerCancel ==
    /\ prodPC = "send"
    /\ ctxDone
    /\ prodPC' = "close"
    /\ UNCHANGED << cfg, target, ctxDone, runVars, calVars, bookVars, mode, scanDepth, urls, prodIdx,
                    jobs, jobsClosed, results, resultsClosed, wpc, wjob, wres, hpc, histVars >>

\* close(jobs)
ProducerClose ==
    /\ prodPC = "close"
    /\ jobsClosed' = TRUE
    /\ prodPC' = "done"
    /\ UNCHANGED << cfg, target, ctxDone, runVars, calVars, bookVars, mode, scanDepth, urls, prodIdx,
                    jobs, results, resultsClosed, wpc, wjob, wres, hpc, histVars >>

\* ----------------------------------------------------------- workers

\* The worker's select, case job, ok := <-jobs with a job in the buffer. Go
\* chooses among the ready cases at random, so the receive may be taken
\* whether or not the context is done.
WorkerReceive(w) ==
    /\ wpc[w] = "idle"
    /\ jobs # << >>
    /\ wjob' = [wjob EXCEPT ![w] = Head(jobs)]
    /\ jobs' = Tail(jobs)
    /\ wpc' = [wpc EXCEPT ![w] = "probe"]
    /\ UNCHANGED << cfg, target, ctxDone, runVars, calVars, bookVars, mode, scanDepth, urls, prodPC,
                    prodIdx, jobsClosed, results, resultsClosed, wres, hpc, histVars >>

\* The receive on the closed and drained jobs channel: !ok, return.
WorkerJobsClosed(w) ==
    /\ wpc[w] = "idle"
    /\ jobs = << >>
    /\ jobsClosed
    /\ wpc' = [wpc EXCEPT ![w] = "exit"]
    /\ UNCHANGED << cfg, target, ctxDone, runVars, calVars, bookVars, mode, scanDepth, urls, prodPC,
                    prodIdx, jobs, jobsClosed, results, resultsClosed, wjob, wres, hpc,
                    histVars >>

\* case <-e.ctx.Done(): return, in the receiving or in the sending select
\* (the result of a sending worker is dropped).
WorkerCancelReceivingOnly(w) ==
    /\ wpc[w] = "idle"
    /\ ctxDone
    /\ wpc' = [wpc EXCEPT ![w] = "exit"]
    /\ wjob' = [wjob EXCEPT ![w] = NoJob]
    /\ wres' = [wres EXCEPT ![w] = NoResult]
    /\ UNCHANGED << cfg, target, ctxDone, runVars, calVars, bookVars, mode, scanDepth, urls, prodPC,
                    prodIdx, jobs, jobsClosed, results, resultsClosed, hpc, histVars >>

WorkerCancel(w) ==
    /\ wpc[w] \in {"idle", "send"}
    /\ ctxDone
    /\ wpc' = [wpc EXCEPT ![w] = "exit"]
    /\ wjob' = [wjob EXCEPT ![w] = NoJob]
    /\ wres' = [wres EXCEPT ![w] = NoResult]
    /\ UNCHANGED << cfg, target, ctxDone, runVars, calVars, bookVars, mode, scanDepth, urls, prodPC,
                    prodIdx, jobs, jobsClosed, results, resultsClosed, hpc, histVars >>

\* Whether the worker of the running scan escalates to the GET.
NeedsVerification(h) ==
    IF mode = "dir" THEN needsVerificationFast(h.err, h.status, cfg.FilterCodes)
    ELSE needsVerificationFiles(h.err, h.status, cfg.FilterCodes)

\* No GET was issued.
NoGet == [err |-> FALSE, status |-> 0, size |-> 0, hash |-> ""]

\* The Result a worker builds from the HEAD and, when issued, the GET.
WorkerResultOfLastRequest(job, h, needs, g) ==
    [ url |-> job.url, status |-> h.status,
      size |-> IF needs /\ ~g.err THEN g.size ELSE h.size,
      hash |-> IF needs /\ ~g.err THEN g.hash ELSE "",
      depth |-> job.depth, err |-> IF needs THEN g.err ELSE h.err ]

WorkerResult(job, h, needs, g) ==
    [ url |-> job.url, status |-> h.status,
      size |-> IF needs /\ ~g.err THEN g.size ELSE h.size,
      hash |-> IF needs /\ ~g.err THEN g.hash ELSE "",
      depth |-> job.depth, err |-> h.err ]

\* The pages the target may answer a probe of url with.
PagesAt(url) ==
    IF url \in DOMAIN target.Site THEN {target.Site[url]}
    ELSE {target.Missing} \cup target.Pages

\* The probe of one job: HeadRequest, and RequestWithBody when the HEAD's
\* result needs verification.
WorkerProbe(w) ==
    /\ wpc[w] = "probe"
    /\ \E page \in PagesAt(wjob[w].url), hf \in BOOLEAN, gf \in BOOLEAN :
          LET h == HeadRequest(page, hf)
              needs == NeedsVerification(h)
              g == RequestWithBody(page, gf)
              plain == wjob[w].url \in DOMAIN target.Site \/ (page = target.Missing /\ ~hf)
          IN  /\ hf => target.HeadFails /\ page = target.Missing
              /\ gf => target.GetFails /\ needs
              /\ ~plain => hits < MaxHits
              /\ hits' = IF plain THEN hits ELSE hits + 1
              /\ heads' = MapInc(heads, wjob[w].url)
              /\ gets' = IF needs THEN MapInc(gets, wjob[w].url) ELSE gets
              /\ wres' = [wres EXCEPT ![w] = WorkerResult(wjob[w], h, needs, g)]
              /\ probeLog' = probeLog \cup
                     {[ url |-> wjob[w].url, mode |-> mode, head |-> h, issued |-> needs,
                        get |-> IF needs THEN g ELSE NoGet,
                        result |-> WorkerResult(wjob[w], h, needs, g) ]}
    /\ wpc' = [wpc EXCEPT ![w] = "send"]
    /\ UNCHANGED << cfg, target, ctxDone, runVars, calVars, bookVars, mode, scanDepth, urls, prodPC,
                    prodIdx, jobs, jobsClosed, results, resultsClosed, wjob, hpc, jobsBuilt,
                    foundLog, calibOK, dropLog >>

\* The sending select's case results <- Result{...}.
WorkerSendSkipping404(w) ==
    /\ wpc[w] = "send"
    /\ Len(results) < Capacity
    /\ results' = IF wres[w].status = 404 THEN results ELSE Append(results, wres[w])
    /\ wpc' = [wpc EXCEPT ![w] = "idle"]
    /\ wjob' = [wjob EXCEPT ![w] = NoJob]
    /\ wres' = [wres EXCEPT ![w] = NoResult]
    /\ UNCHANGED << cfg, target, ctxDone, runVars, calVars, bookVars, mode, scanDepth, urls, prodPC,
                    prodIdx, jobs, jobsClosed, resultsClosed, hpc, histVars >>

WorkerSend(w) ==
    /\ wpc[w] = "send"
    /\ Len(results) < Capacity
    /\ results' = Append(results, wres[w])
    /\ wpc' = [wpc EXCEPT ![w] = "idle"]
    /\ wjob' = [wjob EXCEPT ![w] = NoJob]
    /\ wres' = [wres EXCEPT ![w] = NoResult]
    /\ UNCHANGED << cfg, target, ctxDone, runVars, calVars, bookVars, mode, scanDepth, urls, prodPC,
                    prodIdx, jobs, jobsClosed, resultsClosed, hpc, histVars >>

\* ---------------------------------------------------- result handler

\* The classifier of both handlers, in the order of the code: the step that
\* drops the result, or "keep".
ClassifyKeepingServerErrors(r, tracked) ==
    IF r.err THEN "error"
    ELSE IF r.status = 404 \/ r.status \in cfg.FilterCodes THEN "code"
    ELSE IF r.size \in cfg.ExcludeSizes THEN "size"
    ELSE IF isSoft404(baselines, r.hash, r.size) THEN "soft404"
    ELSE IF tracked.drop THEN "dynamic"
    ELSE "keep"

ClassifyIgnoringErrors(r, tracked) ==
    IF r.status = 404 \/ r.status \in cfg.FilterCodes THEN "code"
    ELSE IF r.status >= 500 THEN "server"
    ELSE IF r.size \in cfg.ExcludeSizes THEN "size"
    ELSE IF isSoft404(baselines, r.hash, r.size) THEN "soft404"
    ELSE IF tracked.drop THEN "dynamic"
    ELSE "keep"

Classify(r, tracked) ==
    IF r.err THEN "error"
    ELSE IF r.status = 404 \/ r.status \in cfg.FilterCodes THEN "code"
    ELSE IF r.status >= 500 THEN "server"
    ELSE IF r.size \in cfg.ExcludeSizes THEN "size"
    ELSE IF isSoft404(baselines, r.hash, r.size) THEN "soft404"
    ELSE IF tracked.drop THEN "dynamic"
    ELSE "keep"

\* The handler's isDir: handleDirectoryResults asks isDirectory,
\* handleFileResults sets "isDir := false".
IsDirOfAnyResult(r) == isDirectory(r.url, r.status)

IsDirOf(r) == IF mode = "dir" THEN isDirectory(r.url, r.status) ELSE FALSE

\* One turn of "for r := range results" of handleDirectoryResults (mode
\* "dir") or handleFileResults (mode "file").
HandleResultTrackingFirst ==
    /\ hpc = "run"
    /\ results # << >>
    /\ LET r == Head(results)
           tracked == trackSoft404Size(soft404Sizes, r.size, r.status)
           verdict == Classify(r, tracked)
           isDir == IsDirOf(r)
           isFound == verdict = "keep" /\ PrintResult(cfg.StatusCodes, r.status)
           writes == isFound /\ isReliableResult(r.status) /\ cfg.OutputEnabled
           isNew == OutputKey(r.url) \notin outputURLs
           registers == /\ isFound
                        /\ mode = "dir"
                        /\ ShouldRegister(isDir, r.status, scanDepth, cfg.Recursive,
                                          cfg.MaxDepth)
       IN  /\ results' = Tail(results)
           /\ processed' = processed + 1
           /\ errors' = IF verdict = "error" THEN errors + 1 ELSE errors
           /\ soft404Sizes' = IF verdict # "error" THEN tracked.sizes ELSE soft404Sizes
           /\ found' = IF isFound THEN found + 1 ELSE found
           /\ foundLog' = IF isFound THEN foundLog \cup {[url |-> r.url, status |-> r.status,
                                                       size |-> r.size, hash |-> r.hash,
                                                       depth |-> scanDepth, isDir |-> isDir]}
                          ELSE foundLog
           /\ dropLog' = IF verdict # "keep"
                            THEN dropLog \cup {[url |-> r.url, status |-> r.status,
                                                size |-> r.size, hash |-> r.hash,
                                                step |-> verdict]}
                         ELSE dropLog
           /\ outputURLs' = IF writes THEN outputURLs \cup {OutputKey(r.url)} ELSE outputURLs
           /\ written' = IF writes /\ isNew THEN Append(written, r.url) ELSE written
           /\ directories' = IF registers
                                THEN Append(directories,
                                            RegistryEntry(scanDepth, TrimRight(r.url)))
                                ELSE directories
    /\ UNCHANGED << cfg, target, ctxDone, runVars, calVars, visited, mode, scanDepth, urls, prodPC,
                    prodIdx, jobs, jobsClosed, resultsClosed, wpc, wjob, wres, hpc, hits,
                    jobsBuilt, heads, gets, calibOK, probeLog >>

HandleResultErrorsApart ==
    /\ hpc = "run"
    /\ results # << >>
    /\ LET r == Head(results)
           tracked == trackSoft404Size(soft404Sizes, r.size, r.status)
           verdict == Classify(r, tracked)
           isDir == IsDirOf(r)
           isFound == verdict = "keep" /\ PrintResult(cfg.StatusCodes, r.status)
           writes == isFound /\ isReliableResult(r.status) /\ cfg.OutputEnabled
           isNew == OutputKey(r.url) \notin outputURLs
           registers == /\ isFound
                        /\ mode = "dir"
                        /\ ShouldRegister(isDir, r.status, scanDepth, cfg.Recursive,
                                          cfg.MaxDepth)
       IN  /\ results' = Tail(results)
           /\ processed' = IF verdict = "error" THEN processed ELSE processed + 1
           /\ errors' = IF verdict = "error" THEN errors + 1 ELSE errors
           /\ soft404Sizes' = IF verdict \in {"dynamic", "keep"} THEN tracked.sizes
                              ELSE soft404Sizes
           /\ found' = IF isFound THEN found + 1 ELSE found
           /\ foundLog' = IF isFound THEN foundLog \cup {[url |-> r.url, status |-> r.status,
                                                       size |-> r.size, hash |-> r.hash,
                                                       depth |-> scanDepth, isDir |-> isDir]}
                          ELSE foundLog
           /\ dropLog' = IF verdict # "keep"
                            THEN dropLog \cup {[url |-> r.url, status |-> r.status,
                                                size |-> r.size, hash |-> r.hash,
                                                step |-> verdict]}
                         ELSE dropLog
           /\ outputURLs' = IF writes THEN outputURLs \cup {OutputKey(r.url)} ELSE outputURLs
           /\ written' = IF writes /\ isNew THEN Append(written, r.url) ELSE written
           /\ directories' = IF registers
                                THEN Append(directories,
                                            RegistryEntry(scanDepth, TrimRight(r.url)))
                                ELSE directories
    /\ UNCHANGED << cfg, target, ctxDone, runVars, calVars, visited, mode, scanDepth, urls, prodPC,
                    prodIdx, jobs, jobsClosed, resultsClosed, wpc, wjob, wres, hpc, hits,
                    jobsBuilt, heads, gets, calibOK, probeLog >>

HandleResult ==
    /\ hpc = "run"
    /\ results # << >>
    /\ LET r == Head(results)
           tracked == trackSoft404Size(soft404Sizes, r.size, r.status)
           verdict == Classify(r, tracked)
           isDir == IsDirOf(r)
           isFound == verdict = "keep" /\ PrintResult(cfg.StatusCodes, r.status)
           writes == isFound /\ isReliableResult(r.status) /\ cfg.OutputEnabled
           isNew == OutputKey(r.url) \notin outputURLs
           registers == /\ isFound
                        /\ mode = "dir"
                        /\ ShouldRegister(isDir, r.status, scanDepth, cfg.Recursive,
                                          cfg.MaxDepth)
       IN  /\ results' = Tail(results)
           /\ processed' = processed + 1
           /\ errors' = IF verdict = "error" THEN errors + 1 ELSE errors
           /\ soft404Sizes' = IF verdict \in {"dynamic", "keep"} THEN tracked.sizes
                              ELSE soft404Sizes
           /\ found' = IF isFound THEN found + 1 ELSE found
           /\ foundLog' = IF isFound THEN foundLog \cup {[url |-> r.url, status |-> r.status,
                                                       size |-> r.size, hash |-> r.hash,
                                                       depth |-> scanDepth, isDir |-> isDir]}
                          ELSE foundLog
           /\ dropLog' = IF verdict # "keep"
                            THEN dropLog \cup {[url |-> r.url, status |-> r.status,
                                                size |-> r.size, hash |-> r.hash,
                                                step |-> verdict]}
                         ELSE dropLog
           /\ outputURLs' = IF writes THEN outputURLs \cup {OutputKey(r.url)} ELSE outputURLs
           /\ written' = IF writes /\ isNew THEN Append(written, r.url) ELSE written
           /\ directories' = IF registers
                                THEN Append(directories,
                                            RegistryEntry(scanDepth, TrimRight(r.url)))
                                ELSE directories
    /\ UNCHANGED << cfg, target, ctxDone, runVars, calVars, visited, mode, scanDepth, urls, prodPC,
                    prodIdx, jobs, jobsClosed, resultsClosed, wpc, wjob, wres, hpc, hits,
                    jobsBuilt, heads, gets, calibOK, probeLog >>

\* The range loop ends on the closed and drained results channel.
HandlerDoneOnCancel ==
    /\ hpc = "run"
    /\ ctxDone \/ (results = << >> /\ resultsClosed)
    /\ hpc' = "done"
    /\ UNCHANGED << cfg, target, ctxDone, runVars, calVars, bookVars, mode, scanDepth, urls, prodPC,
                    prodIdx, jobs, jobsClosed, results, resultsClosed, wpc, wjob, wres,
                    histVars >>

HandlerDone ==
    /\ hpc = "run"
    /\ results = << >>
    /\ resultsClosed
    /\ hpc' = "done"
    /\ UNCHANGED << cfg, target, ctxDone, runVars, calVars, bookVars, mode, scanDepth, urls, prodPC,
                    prodIdx, jobs, jobsClosed, results, resultsClosed, wpc, wjob, wres,
                    histVars >>

\* -------------------------------------------------------- specification

RunThread ==
    \/ RunStart
    \/ Phase1Start
    \/ Phase2Enter
    \/ DepthLevel
    \/ DirectoryUnit
    \/ Phase3Enter
    \/ FileUnit
    \/ WorkersWaited
    \/ HandlerWaited

Producer == ProducerSend \/ ProducerCancel \/ ProducerClose

Worker(w) ==
    \/ WorkerReceive(w)
    \/ WorkerJobsClosed(w)
    \/ WorkerCancel(w)
    \/ WorkerProbe(w)
    \/ WorkerSend(w)

Handler == HandleResult \/ HandlerDone

Calibration == \E p \in 1..NumPatterns : CalibProbe(p)

Next ==
    \/ Stop
    \/ RunThread
    \/ Calibration
    \/ Producer
    \/ \E w \in Workers : Worker(w)
    \/ Handler

Spec == Init /\ [][Next]_vars

\* Every goroutine that can take a step eventually takes one (the Go
\* scheduler), and every request completes or times out; Stop is up to the
\* caller.
Fairness ==
    /\ WF_vars(RunThread)
    /\ WF_vars(Calibration)
    /\ WF_vars(Producer)
    /\ \A w \in ThreadCounts : WF_vars(w \in Workers /\ Worker(w))
    /\ WF_vars(Handler)

\* The runs checked for liveness: recursive, one level deep, with file
\* discovery.
FairConfigs == { c \in Configs : c.Recursive /\ c.MaxDepth = 1 /\ c.Extensions # << >> }

FairInit == \E c \in FairConfigs, t \in Targets : InitWith(c, t)

FairSpec == FairInit /\ [][Next]_vars /\ Fairness

\* ------------------------------------------- runs that fill the tracker

\* A wordlist of n distinct words: a1, a2, ...
WordList(n) == [i \in 1..n |-> << "a" >> \o FormatInt(i)]

\* The URLs a non-recursive run over WordList(n) with the extension x
\* probes on the target t.
WordURL(i) == HttpsPrefix \o << "t", Slash, "a" >> \o FormatInt(i)
FileURL(i) == WordURL(i) \o << ".", "x" >>

\* The page a target of the given kind serves for the i-th word: always 403
\* with a short body, 401 and 403 in turn, or 403 with a long body.
TrackerPage(kind, i) ==
    CASE kind = "forbidden" -> [status |-> 403, body |-> "fb"]
      [] kind = "mixed" -> [status |-> IF i % 2 = 0 THEN 401 ELSE 403, body |-> "fb"]
      [] kind = "big" -> [status |-> 403, body |-> "bg"]

\* A target that answers every probed URL with the page of its word.
SiteOf(n, kind) ==
    [u \in { WordURL(i) : i \in 1..n } \cup { FileURL(i) : i \in 1..n } |->
        TrackerPage(kind, CHOOSE i \in 1..n : u \in {WordURL(i), FileURL(i)})]

TrackerTargets ==
    { [ Missing |-> NotFoundPage, Site |-> site, Pages |-> {},
        HeadFails |-> FALSE, GetFails |-> FALSE, CalibFails |-> FALSE ] :
      site \in { SiteOf(NumTrackerWords, kind) : kind \in {"forbidden", "mixed", "big"} } }

TrackerConfigs ==
    { [ TargetURL |-> << "t", "/" >>, Words |-> WordList(NumTrackerWords), Threads |-> th,
        Extensions |-> << << "x" >> >>, Recursive |-> FALSE, MaxDepth |-> 0, AddSlash |-> FALSE,
        FilterCodes |-> {}, ExcludeSizes |-> {}, StatusCodes |-> {},
        OutputEnabled |-> (th = 1) ] : th \in ThreadCounts }

TrackerInit == \E c \in TrackerConfigs, t \in TrackerTargets : InitWith(c, t)

\* The steps of a non-recursive run with file discovery that is not stopped.
FlatRun ==
    \/ RunStart
    \/ Calibration
    \/ Phase1Start
    \/ Phase2Enter
    \/ Phase3Enter
    \/ FileUnit
    \/ WorkersWaited
    \/ HandlerWaited
    \/ ProducerSend
    \/ ProducerClose
    \/ \E w \in Workers : WorkerReceive(w) \/ WorkerJobsClosed(w) \/ WorkerProbe(w) \/ WorkerSend(w)
    \/ HandleResult
    \/ HandlerDone

TrackerSpec == TrackerInit /\ [][FlatRun]_vars

\* ------------------------------------------ runs that try the classifier

\* Targets whose not-found page is the usual one, has an empty body, or is
\* served with status 200, and that serve pages of every kind the classifier
\* tells apart; requests may fail in transport.
ClassifyTargets ==
    { [ Missing |-> ms, Site |-> EmptyMap,
        Pages |-> { [status |-> 200, body |-> "pg"], [status |-> 200, body |-> "n2"],
                    [status |-> 201, body |-> "em"], [status |-> 403, body |-> "fb"],
                    [status |-> 403, body |-> "n2"], [status |-> 500, body |-> "pg"],
                    [status |-> 301, body |-> "em"] },
        HeadFails |-> TRUE, GetFails |-> TRUE, CalibFails |-> FALSE ] :
      ms \in { NotFoundPage, [status |-> 404, body |-> "em"], [status |-> 200, body |-> "nf"] } }

\* Non-recursive runs over one word and one extension, with and without the
\* user's filters.
ClassifyConfigs ==
    { [ TargetURL |-> << "t", "/" >>, Words |-> << << "a" >> >>, Threads |-> 1,
        Extensions |-> << << "x" >> >>, Recursive |-> FALSE, MaxDepth |-> 0, AddSlash |-> FALSE,
        FilterCodes |-> fc, ExcludeSizes |-> xs, StatusCodes |-> sc,
        OutputEnabled |-> TRUE ] :
      fc \in { {}, {403} }, xs \in { {}, {7} }, sc \in { {}, {200, 301} } }

\* The classifier is tried on these runs and on the single-worker runs that
\* fill the tracker.
ClassifyInit ==
    \/ \E c \in ClassifyConfigs, t \in ClassifyTargets : InitWith(c, t)
    \/ \E c \in TrackerConfigs, t \in TrackerTargets : c.Threads = 1 /\ InitWith(c, t)

ClassifySpec == ClassifyInit /\ [][FlatRun]_vars

\* ------------------------------------------------ runs with failing requests

\* A target whose requests may fail in transport, the calibration requests
\* included, and that serves its not-found body with status 200 at some
\* URLs.
FailTargets ==
    { [ Missing |-> NotFoundPage, Site |-> EmptyMap,
        Pages |-> { [status |-> 200, body |-> "pg"], [status |-> 200, body |-> "nf"] },
        HeadFails |-> TRUE, GetFails |-> TRUE, CalibFails |-> TRUE ] }

FailConfigs == { c \in FairConfigs : c.Threads = 1 /\ ~c.AddSlash }

FailInit == \E c \in FailConfigs, t \in FailTargets : InitWith(c, t)

FailSpec == FailInit /\ [][Next]_vars /\ Fairness

\* -------------------------------------------------- the targets of a run

\* n slashes.
Slashes(n) == [i \in 1..n |-> Slash]

\* The target URLs a user may give: with and without a (whole or partial)
\* scheme prefix, with and without a host and a path, followed by slashes.
TargetURLs ==
    { pre \o body \o Slashes(n) :
        pre \in { << >>, HttpPrefix, HttpsPrefix, << "h", "t", "t", "p", ":" >>,
                  << "h", "t", "t", "p", ":", "/" >>, << "h", "t", "t", "p", "s", ":" >> },
        body \in { << >>, << "t" >>, << "t", "/", "a" >> },
        n \in 0..MaxSlashes }

TargetConfigs ==
    { [ TargetURL |-> u, Words |-> << << "a" >> >>, Threads |-> th,
        Extensions |-> << >>, Recursive |-> FALSE, MaxDepth |-> 0, AddSlash |-> FALSE,
        FilterCodes |-> {}, ExcludeSizes |-> {}, StatusCodes |-> {},
        OutputEnabled |-> TRUE ] : u \in TargetURLs, th \in ThreadCounts }

TargetInit == \E c \in TargetConfigs, t \in Targets : InitWith(c, t)

\* Run up to "baseURL := e.normalizeURL(e.config.TargetURL)", and Stop.
TargetSpec == TargetInit /\ [][RunStart \/ Stop]_vars

\* ------------------------------------------------- the three-word scan

Admin == << "a", "d", "m", "i", "n" >>
Login == << "l", "o", "g", "i", "n" >>

\* The URL of a path on the target t.
At(path) == HttpsPrefix \o << "t", Slash >> \o path

\* A target that answers /admin with 200, /login with 404 and /x with 301.
ThreeWordTargets ==
    { [ Missing |-> NotFoundPage,
        Site |-> MapPut(MapPut(MapPut(EmptyMap, At(Admin), [status |-> 200, body |-> "pg"]),
                               At(Login), NotFoundPage),
                        At(<< "x" >>), [status |-> 301, body |-> "em"]),
        Pages |-> {},
        HeadFails |-> FALSE, GetFails |-> FALSE, CalibFails |-> FALSE ] }

\* Non-recursive runs over the words admin, login, x without extensions.
ThreeWordConfigs ==
    { [ TargetURL |-> << "t" >>, Words |-> << Admin, Login, << "x" >> >>, Threads |-> th,
        Extensions |-> << >>, Recursive |-> FALSE, MaxDepth |-> md, AddSlash |-> FALSE,
        FilterCodes |-> {}, ExcludeSizes |-> {}, StatusCodes |-> {},
        OutputEnabled |-> TRUE ] : th \in ThreadCounts, md \in 0..MaxDepthBound }

ThreeWordInit == \E c \in ThreeWordConfigs, t \in ThreeWordTargets : InitWith(c, t)

\* The steps of a non-recursive run without file discovery that is not
\* stopped.
DirectoryRun ==
    \/ RunStart
    \/ Calibration
    \/ Phase1Start
    \/ Phase2Enter
    \/ Phase3Enter
    \/ WorkersWaited
    \/ HandlerWaited
    \/ ProducerSend
    \/ ProducerClose
    \/ \E w \in Workers : WorkerReceive(w) \/ WorkerJobsClosed(w) \/ WorkerProbe(w) \/ WorkerSend(w)
    \/ HandleResult
    \/ HandlerDone

ThreeWordSpec == ThreeWordInit /\ [][DirectoryRun]_vars

\* ------------------------------------------------- the recursive scan

\* The deepest level the recursive runs may be configured with.
TreeDepth == 3

\* Targets with directories on three levels: /a and /a/ (200) and /b (301) at
\* the top, /a/a (200) and /b/b (302) beneath them, /a/b forbidden, and
\* /a/a/a (200) on the third level of the first target only.
TreeTargets ==
    LET top == MapPut(MapPut(MapPut(EmptyMap, At(<< "a" >>), [status |-> 200, body |-> "pg"]),
                             At(<< "a", Slash >>), [status |-> 200, body |-> "pg"]),
                      At(<< "b" >>), [status |-> 301, body |-> "em"])
        mid == MapPut(MapPut(MapPut(top, At(<< "a", Slash, "a" >>), [status |-> 200, body |-> "pg"]),
                             At(<< "a", Slash, "b" >>), [status |-> 403, body |-> "fb"]),
                      At(<< "b", Slash, "b" >>), [status |-> 302, body |-> "em"])
        low == MapPut(mid, At(<< "a", Slash, "a", Slash, "a" >>), [status |-> 200, body |-> "pg"])
    IN  { [ Missing |-> NotFoundPage, Site |-> site, Pages |-> {},
            HeadFails |-> FALSE, GetFails |-> FALSE, CalibFails |-> FALSE ] :
          site \in { mid, low } }

\* Runs over the words a, b, recursive or not, to every depth up to
\* TreeDepth; with two workers, the recursive runs without slash variants.
TreeConfigs ==
    LET all == { [ TargetURL |-> << "t" >>, Words |-> << << "a" >>, << "b" >> >>, Threads |-> th,
        Extensions |-> ex, Recursive |-> rec, MaxDepth |-> md, AddSlash |-> as,
        FilterCodes |-> {}, ExcludeSizes |-> {}, StatusCodes |-> {},
        OutputEnabled |-> TRUE ] :
      th \in ThreadCounts, ex \in { << >>, << << "x" >> >> }, rec \in BOOLEAN,
      md \in 0..TreeDepth, as \in BOOLEAN }
    IN  { c \in all : c.Threads = 1 \/ (c.Recursive /\ ~c.AddSlash) }

TreeInit == \E c \in TreeConfigs, t \in TreeTargets : InitWith(c, t)

TreeSpec == TreeInit /\ [][Next]_vars

\* ------------------------------------------------------ the deep scan

\* The depth of the deep runs: the registry gets entries of two-digit depths.
DeepDepth == 11

\* The path a/a/.../a of n segments.
RECURSIVE Chain(_)
Chain(n) == IF n = 1 THEN << "a" >> ELSE Chain(n - 1) \o << Slash, "a" >>

\* A target with one directory inside the other, DeepDepth + 1 levels deep,
\* every one answering 200.
DeepTargets ==
    LET F[n \in 0..(DeepDepth + 1)] ==
            IF n = 0 THEN EmptyMap
            ELSE MapPut(F[n - 1], At(Chain(n)), [status |-> 200, body |-> "pg"])
    IN  { [ Missing |-> NotFoundPage, Site |-> F[DeepDepth + 1], Pages |-> {},
            HeadFails |-> FALSE, GetFails |-> FALSE, CalibFails |-> FALSE ] }

\* Recursive runs over the word a to depth DeepDepth.
DeepConfigs ==
    { [ TargetURL |-> << "t" >>, Words |-> << << "a" >> >>, Threads |-> 1,
        Extensions |-> ex, Recursive |-> TRUE, MaxDepth |-> DeepDepth, AddSlash |-> FALSE,
        FilterCodes |-> {}, ExcludeSizes |-> {}, StatusCodes |-> {},
        OutputEnabled |-> TRUE ] : ex \in { << >>, << << "x" >> >> } }

DeepInit == \E c \in DeepConfigs, t \in DeepTargets : InitWith(c, t)

DeepSpec == DeepInit /\ [][Next]_vars

\* ------------------------------------------------- the untidy word list

\* A word list as read from a file: padded, empty and comment lines, a word
\* with a leading slash, one with an extension, one with a trailing slash
\* after the same word without, and a repeated word.
UntidyWords ==
    << << " ", "a", " " >>, << >>, << "#", "a" >>, << Slash, "b" >>, << "a", ".", "x" >>,
       << "a", Slash >>, << "a" >> >>

\* A target whose only page is the directory /b.
UntidyTargets ==
    { [ Missing |-> NotFoundPage,
        Site |-> MapPut(EmptyMap, At(<< "b" >>), [status |-> 200, body |-> "pg"]),
        Pages |-> {},
        HeadFails |-> FALSE, GetFails |-> FALSE, CalibFails |-> FALSE ] }

\* Recursive runs over the untidy list, with and without slash variants and
\* file discovery.
UntidyConfigs ==
    { [ TargetURL |-> << "t" >>, Words |-> UntidyWords, Threads |-> 1,
        Extensions |-> ex, Recursive |-> TRUE, MaxDepth |-> 1, AddSlash |-> as,
        FilterCodes |-> {}, ExcludeSizes |-> {}, StatusCodes |-> {},
        OutputEnabled |-> TRUE ] : ex \in { << >>, << << "x" >> >> }, as \in BOOLEAN }

UntidyInit == \E c \in UntidyConfigs, t \in UntidyTargets : InitWith(c, t)

UntidySpec == UntidyInit /\ [][Next]_vars

\* ------------------------------------------------ runs that try the probes

\* Targets that answer a probe with any of: the not-found page, a page or
\* a 201 served without Content-Length, redirects, a forbidden page, a
\* server error; HEAD and GET requests may fail in transport. The
\* not-found page is the usual one, or is served with status 200 and
\* without Content-Length.
ProbeTargets ==
    { [ Missing |-> ms, Site |-> EmptyMap,
        Pages |-> { [status |-> 200, body |-> "ck"], [status |-> 201, body |-> "ck"],
                    [status |-> 301, body |-> "em"], [status |-> 302, body |-> "pg"],
                    [status |-> 403, body |-> "fb"], [status |-> 500, body |-> "pg"] },
        HeadFails |-> TRUE, GetFails |-> TRUE, CalibFails |-> FALSE ] :
      ms \in { NotFoundPage, [status |-> 200, body |-> "ck"] } }

\* Non-recursive runs over the word a with slash variants and the extension
\* x, with and without the status filter 403.
ProbeConfigs ==
    { [ TargetURL |-> << "t" >>, Words |-> << << "a" >> >>, Threads |-> 1,
        Extensions |-> << << "x" >> >>, Recursive |-> FALSE, MaxDepth |-> 0, AddSlash |-> TRUE,
        FilterCodes |-> fc, ExcludeSizes |-> {}, StatusCodes |-> {},
        OutputEnabled |-> TRUE ] : fc \in { {}, {403} } }

ProbeInit == \E c \in ProbeConfigs, t \in ProbeTargets : InitWith(c, t)

ProbeSpec == ProbeInit /\ [][FlatRun]_vars

\* ------------------------------------------------- runs with full queues

\* The number of words of the runs with one worker.
QueueWords == 5

\* A target whose only page is the directory /a1.
QueueTargets ==
    { [ Missing |-> NotFoundPage,
        Site |-> MapPut(EmptyMap, WordURL(1), [status |-> 200, body |-> "pg"]),
        Pages |-> {},
        HeadFails |-> FALSE, GetFails |-> FALSE, CalibFails |-> FALSE ] }

\* Non-recursive runs without file discovery: with one worker over
\* QueueWords words, so that the scan has more URLs than the jobs channel
\* holds, and with two workers over two words.
QueueConfigs ==
    { [ TargetURL |-> << "t" >>,
        Words |-> WordList(IF th = 1 THEN QueueWords ELSE 2), Threads |-> th,
        Extensions |-> << >>, Recursive |-> FALSE, MaxDepth |-> 0, AddSlash |-> FALSE,
        FilterCodes |-> {}, ExcludeSizes |-> {}, StatusCodes |-> {},
        OutputEnabled |-> TRUE ] : th \in ThreadCounts }

QueueInit == \E c \in QueueConfigs, t \in QueueTargets : InitWith(c, t)

\* The steps of a non-recursive run without file discovery that may be
\* stopped at any point.
StoppableDirectoryRun ==
    \/ DirectoryRun
    \/ Stop
    \/ ProducerCancel
    \/ \E w \in Workers : WorkerCancel(w)

QueueSpec == QueueInit /\ [][StoppableDirectoryRun]_vars

\* The same runs under the scheduler's fairness.
FairQueueSpec == QueueInit /\ [][StoppableDirectoryRun]_vars /\ Fairness

\* ------------------------- runs that meet a found page of a tracked size

\* A target that answers every probed URL with 403 and the short body,
\* except the last file URL, where it serves the same short body with
\* status 200.
LastPageTargets ==
    { [ Missing |-> NotFoundPage,
        Site |-> [u \in DOMAIN SiteOf(NumTrackerWords, "forbidden") |->
                     IF u = FileURL(NumTrackerWords) THEN [status |-> 200, body |-> "fb"]
                     ELSE [status |-> 403, body |-> "fb"]],
        Pages |-> {}, HeadFails |-> FALSE, GetFails |-> FALSE, CalibFails |-> FALSE ] }

\* The runs that fill the tracker, on the targets above as well.
LastPageInit ==
    \E c \in TrackerConfigs, t \in TrackerTargets \cup LastPageTargets : InitWith(c, t)

LastPageSpec == LastPageInit /\ [][FlatRun]_vars

\* ------------------------------------------ runs that are never stopped

\* Runs over the words a, b on the targets with three levels of
\* directories, with one and two workers (two workers and slash variants
\* together one level deep), and the runs that fill the tracker.
OrderConfigs ==
    LET all == { [ TargetURL |-> << "t" >>, Words |-> << << "a" >>, << "b" >> >>, Threads |-> th,
        Extensions |-> ex, Recursive |-> rec, MaxDepth |-> md, AddSlash |-> as,
        FilterCodes |-> {}, ExcludeSizes |-> {}, StatusCodes |-> {},
        OutputEnabled |-> TRUE ] :
      th \in ThreadCounts, ex \in { << >>, << << "x" >> >> }, rec \in BOOLEAN,
      md \in 0..TreeDepth, as \in BOOLEAN }
    IN  { c \in all : (c.Threads = 2 /\ c.AddSlash) => (c.Recursive /\ c.MaxDepth = 1) }

OrderInit ==
    \/ \E c \in OrderConfigs, t \in TreeTargets : InitWith(c, t)
    \/ \E c \in TrackerConfigs, t \in TrackerTargets : InitWith(c, t)

\* The steps of a run on which Stop is never called.
UnstoppedRun ==
    \/ RunThread
    \/ Calibration
    \/ ProducerSend
    \/ ProducerClose
    \/ \E w \in Workers : WorkerReceive(w) \/ WorkerJobsClosed(w) \/ WorkerProbe(w) \/ WorkerSend(w)
    \/ Handler

OrderSpec == OrderInit /\ [][UnstoppedRun]_vars

\* ================================================================ claims

\* The URLs of the jobs that are in the pipeline: buffered in the jobs
\* channel or held by a worker.
JobsInFlight ==
    [i \in 1..Len(jobs) |-> jobs[i].url]
        \o SelectSeq([w \in Workers |-> wjob[w].url], LAMBDA u : u # << >>)

NoRepeat(q) == \A i, j \in 1..Len(q) : i # j => q[i] # q[j]

\* C1: across a whole Run no two Jobs are created for the same URL: every
\* URL a builder returns is returned once, it is in the visited set from the
\* moment it is built (so before its Job is enqueued), and no URL is twice
\* in the pipeline; also when a directory is registered twice.
C1_NoDuplicateJobs ==
    /\ \A u \in DOMAIN jobsBuilt : jobsBuilt[u] = 1 /\ u \in DOMAIN visited
    /\ NoRepeat(urls)
    /\ NoRepeat(JobsInFlight)
    /\ \A i \in 1..Len(JobsInFlight) : JobsInFlight[i] \in DOMAIN visited

\* C1's case: a directory registered twice (by its slash and its non-slash
\* variant) in a recursive run that went through phase 2 uncancelled.
C1_Witness ==
    /\ \E i, j \in 1..Len(directories) : i # j /\ directories[i] = directories[j]
    /\ cfg.Recursive /\ cfg.MaxDepth >= 1
    /\ ~ctxDone
    /\ runPC = "done"
    /\ Cardinality(DOMAIN jobsBuilt) >= 4

\* C2 as stated: every URL is submitted to the request executor at most
\* once, a HEAD or a GET counting as one submission each.
C2_OneRequestPerURL ==
    \A u \in DOMAIN heads \cup DOMAIN gets : MapGet(heads, u) + MapGet(gets, u) <= 1

\* C2 amended: every URL is probed at most once: at most one HEAD and at
\* most one GET are issued for it, and a wordlist URL's GET follows its HEAD.
C2_OneProbePerURL ==
    /\ \A u \in DOMAIN heads : heads[u] = 1
    /\ \A u \in DOMAIN gets : gets[u] = 1
    /\ \A u \in DOMAIN gets : u \in DOMAIN heads \/ u \in { CalibURL(p) : p \in 1..NumPatterns }

\* C2's case: a probe that escalated from the HEAD to the GET, in a run with
\* a directory registered twice that went through phase 2.
C2_Witness ==
    /\ \E u \in DOMAIN heads : u \in DOMAIN gets
    /\ \E i, j \in 1..Len(directories) : i # j /\ directories[i] = directories[j]
    /\ cfg.Recursive /\ cfg.MaxDepth >= 1
    /\ ~ctxDone
    /\ runPC = "done"

\* C3: once the context is done, no send on a jobs channel completes.
C3_NoSendAfterCancel == [][ctxDone => Len(jobs') <= Len(jobs)]_vars

\* C4: once the context is done, no worker dequeues a Job to probe it.
C4_NoReceiveAfterCancel ==
    [][ctxDone => \A w \in Workers : ~(wpc[w] = "idle" /\ wpc'[w] = "probe")]_vars

\* C5: once Stop was called (before or during Run), Run eventually returns,
\* and whenever Run has returned it returned nil.
C5_StopTerminates ==
    /\ ctxDone ~> (runPC = "done" /\ retval = "nil")
    /\ [](runPC = "done" => retval = "nil")

\* C5's case: Run returned nil after a Stop that cut the scan short (some
\* built URL's result was never handled).
C5_Witness ==
    /\ ctxDone
    /\ runPC = "done" /\ retval = "nil"
    /\ Cardinality(DOMAIN jobsBuilt) > processed

\* C6: when cancellation is raised before or during calibration, phase 1 is
\* not started.
C6_NoPhase1AfterCancel ==
    [][(ctxDone /\ runPC \in {"init", "calib"}) => runPC' \in {"init", "calib", "done"}]_vars

\* C7: the output sink receives at most one URL per slash-normalized URL.
C7_OutputDedup ==
    \A i, j \in 1..Len(written) : i # j => TrimRight(written[i]) # TrimRight(written[j])

\* C7's case: the slash and the non-slash variant of a path both survived
\* classification with a status that is written.
C7_Witness ==
    \E f, g \in foundLog :
        /\ f.url # g.url
        /\ TrimRight(f.url) = TrimRight(g.url)
        /\ isReliableResult(f.status) /\ isReliableResult(g.status)
        /\ cfg.OutputEnabled

\* The reliable subset as the claim states it.
ClaimedReliable == {200, 201, 204, 301, 302, 307, 308, 401, 403, 405}

\* C8: with file output enabled a found result is forwarded to the output
\* sink (itself, or its slash variant before it) exactly when its status is
\* in the reliable subset {200, 201, 204, 301, 302, 307, 308, 401, 403, 405}.
C8_ReliableForwarded ==
    cfg.OutputEnabled =>
        \A f \in foundLog :
            /\ f.status \in ClaimedReliable =>
                   \E i \in 1..Len(written) : TrimRight(written[i]) = TrimRight(f.url)
            /\ f.status \notin ClaimedReliable => f.url \notin Range(written)

\* u is a URL beneath the directory d.
Beneath(u, d) == HasPrefix(u, d \o << Slash >>) /\ Len(u) > Len(d) + 1

\* C9: in a recursive run with MaxDepth = m >= 1 no Job is ever created, in
\* any phase, for a URL beneath a directory registered at depth m.
C9_NoJobBeneathMaxDepth ==
    (cfg.Recursive /\ cfg.MaxDepth >= 1) =>
        \A d \in Range(getDirectoriesAtDepth(directories, cfg.MaxDepth)) :
            \A u \in DOMAIN jobsBuilt : ~Beneath(u, d)

\* The registration condition as the claim states it.
ClaimedRegisters(f) ==
    f.isDir /\ cfg.Recursive /\ f.depth < cfg.MaxDepth /\ f.status \in {200, 301, 302, 307, 308}

\* C10: a found result is in the directory registry if and only if it is a
\* directory, recursion is enabled, its depth is below MaxDepth and its
\* status is one of {200, 301, 302, 307, 308}.
C10_RegisteredIff ==
    /\ \A f \in foundLog :
           ClaimedRegisters(f) => RegistryEntry(f.depth, TrimRight(f.url)) \in Range(directories)
    /\ \A e \in Range(directories) :
           \E f \in foundLog : ClaimedRegisters(f) /\ e = RegistryEntry(f.depth, TrimRight(f.url))

\* The result passes the classifier's steps before the dynamic tracker.
ReachesTracker(r) == Classify(r, [drop |-> FALSE]) = "keep"

\* C11: once the tracker has counted a size more than 10 times under the
\* statuses 401 and 403, every later result of that size with one of those
\* statuses that reaches the tracker is dropped (in every later pipeline
\* and phase), and no count ever goes down.
C11_TrackerMonotone ==
    [][ /\ \A sz \in DOMAIN soft404Sizes :
             sz \in DOMAIN soft404Sizes' /\ soft404Sizes'[sz] >= soft404Sizes[sz]
        /\ (hpc = "run" /\ results # << >> /\ processed' = processed + 1) =>
             LET r == Head(results)
             IN  ( /\ r.status \in {401, 403}
                   /\ MapGet(soft404Sizes, r.size) > Soft404Threshold
                   /\ ReachesTracker(r) )
                 => /\ found' = found /\ foundLog' = foundLog
                    /\ written' = written /\ directories' = directories
                    /\ soft404Sizes'[r.size] > Soft404Threshold ]_vars

\* C11's case: a size counted past the threshold in phase 1 or 3, results
\* of that size dropped in the file phase after ten of them were found.
C11_Witness ==
    /\ \E sz \in DOMAIN soft404Sizes : soft404Sizes[sz] >= Soft404Threshold + 2
    /\ mode = "file"
    /\ found = Soft404Threshold
    /\ runPC = "done"

\* A step of a result handler, taking the result at the head of the results
\* channel.
Handled == hpc = "run" /\ results # << >> /\ processed' = processed + 1

\* The handled result is dropped: not counted as found, written or
\* registered.
DroppedNow ==
    /\ found' = found /\ foundLog' = foundLog
    /\ written' = written /\ directories' = directories

\* The result reaches the baseline check: steps (a) to (d) let it pass.
ReachesBaselineCheck(r) ==
    /\ ~r.err
    /\ r.status # 404 /\ r.status \notin cfg.FilterCodes
    /\ r.status < 500
    /\ r.size \notin cfg.ExcludeSizes

\* C12 as stated: a result that reaches the baseline check is dropped
\* whenever its hash equals a baseline's hash or its size equals a
\* baseline's size, baselines of size 0 included, whatever its status.
C12_BaselineMatchDropped ==
    [][ Handled =>
          LET r == Head(results)
          IN  ( /\ ReachesBaselineCheck(r)
                /\ \E i \in 1..Len(baselines) :
                       baselines[i].hash = r.hash \/ baselines[i].size = r.size )
              => DroppedNow ]_vars

\* C12 amended: the size match counts only for a baseline whose size is
\* greater than 0.
C12_PositiveBaselineMatchDropped ==
    [][ Handled =>
          LET r == Head(results)
          IN  ( /\ ReachesBaselineCheck(r)
                /\ \E i \in 1..Len(baselines) :
                       \/ baselines[i].hash = r.hash
                       \/ baselines[i].size > 0 /\ baselines[i].size = r.size )
              => DroppedNow ]_vars

\* C12's case: a 200 response was dropped at the baseline check for its
\* size alone (its body differs from every baseline's).
C12_Witness ==
    \E d \in dropLog :
        /\ d.step = "soft404" /\ d.status = 200
        /\ \A i \in 1..Len(baselines) : baselines[i].hash # d.hash
        /\ \E i \in 1..Len(baselines) : baselines[i].size = d.size

\* The baseline a successful calibration probe records.
MissingBaseline == [hash |-> BodyHash(target.Missing.body), size |-> BodySize(target.Missing.body)]

\* C14: the baseline set holds exactly one {hash, size} entry per calibration
\* probe that succeeded and none for a failed one; when every probe failed
\* it is empty, isSoft404 is false for every result (none is dropped at the
\* baseline check), and the run still goes on to phase 1.
C14_CalibrationFailureNonFatal ==
    /\ [](/\ Len(baselines) = Cardinality(calibOK)
          /\ \A i \in 1..Len(baselines) : baselines[i] = MissingBaseline
          /\ (runPC \notin {"init", "calib"} /\ calibOK = {}) =>
                /\ baselines = << >>
                /\ \A d \in dropLog : d.step # "soft404"
                /\ \A pg \in target.Pages :
                       ~isSoft404(baselines, BodyHash(pg.body), BodySize(pg.body)))
    /\ (runPC = "calib") ~> (runPC \notin {"init", "calib"} /\ DOMAIN jobsBuilt # {})

\* C14's case: every calibration probe failed, phase 1 ran, and a response
\* with the not-found body and status 200 was counted as found.
C14_Witness ==
    /\ calibOK = {} /\ runPC = "done" /\ ~ctxDone
    /\ \E f \in foundLog : f.status = 200 /\ f.hash = MissingBaseline.hash

\* C15: a result carrying a transport error increments the errors counter
\* and is dropped (and nothing else counts as an error); the scan goes on
\* with the remaining Jobs, so an unstopped run handles every Job it built;
\* and Run returns, with nil, whatever requests failed.
C15_TransportErrorsNotSurfaced ==
    /\ [][ Handled =>
             LET r == Head(results)
             IN  /\ r.err => errors' = errors + 1 /\ DroppedNow
                 /\ ~r.err => errors' = errors ]_vars
    /\ [](runPC = "done" => retval = "nil")
    /\ []((runPC = "done" /\ ~ctxDone) => processed = Cardinality(DOMAIN jobsBuilt))
    /\ <>(runPC = "done")

\* C15's case: an unstopped run in which a request failed and a later
\* result was still found, Run returning nil.
C15_Witness ==
    /\ runPC = "done" /\ retval = "nil" /\ ~ctxDone
    /\ errors > 0 /\ \E d \in dropLog : d.step = "error"
    /\ found > 0

\* Run is between two scans (or has returned): it is not inside
\* scanDirectoriesFast or scanFiles.
BetweenScans == runPC \in {"phase2", "depth", "dir", "phase3", "files", "done"}

\* C16: when a scan has returned, all its workers have exited and its
\* result handler has finished with the results channel drained, so the
\* registry Run reads is complete; the registry, and every other book the
\* handler keeps, changes only while Run waits inside a scan.
C16_PhaseBarrier ==
    /\ [](BetweenScans =>
             /\ \A w \in Workers : wpc[w] = "exit" /\ wres[w] = NoResult
             /\ hpc = "done"
             /\ results = << >> /\ resultsClosed)
    /\ [][ (directories' # directories \/ processed' # processed \/ found' # found)
             => (runPC \in {"wgwait", "reswait"} /\ runPC' = runPC) ]_vars
    /\ [][ (dirs' # dirs \/ allDirs' # allDirs) => (BetweenScans /\ directories' = directories) ]_vars

\* C16's case: phase 2 reads the registry that phase 1's handler filled, in
\* a run that was not stopped.
C16_Witness ==
    /\ runPC = "dir" /\ dirIdx = 1
    /\ dirs # << >> /\ dirs = getDirectoriesAtDepth(directories, 0)
    /\ ~ctxDone

\* The Jobs and Results of the running scan that are still on their way:
\* URLs not yet sent, Jobs in the jobs channel, Jobs held by a worker,
\* Results in the results channel.
Underway ==
    (IF prodPC = "send" THEN Len(urls) + 1 - prodIdx ELSE 0)
        + Len(jobs)
        + Cardinality({ w \in Workers : wpc[w] \in {"probe", "send"} })
        + Len(results)

\* C17: in a run that is not stopped every scan's pipeline terminates, and
\* no Job or Result is dropped or duplicated: every URL built is probed at
\* most once, every URL built is either still on its way or was handled
\* once, and when a scan has returned the processed counter has grown by
\* exactly the number of URLs built.
C17_PipelineLossless ==
    /\ [](~ctxDone =>
             /\ processed + Underway = Cardinality(DOMAIN jobsBuilt)
             /\ \A u \in DOMAIN heads : heads[u] = 1 /\ u \in DOMAIN jobsBuilt
             /\ BetweenScans =>
                    /\ processed = Cardinality(DOMAIN jobsBuilt)
                    /\ DOMAIN heads = DOMAIN jobsBuilt)
    /\ (runPC \in {"wgwait", "reswait"}) ~> BetweenScans
    /\ <>(runPC = "done")

\* C17's case: an unstopped run with two workers that went through all
\* three phases and handled every URL it built.
C17_Witness ==
    /\ runPC = "done" /\ ~ctxDone
    /\ cfg.Threads = 2
    /\ mode = "file"
    /\ processed >= 4 /\ processed = Cardinality(DOMAIN jobsBuilt)

\* u without its trailing slashes: the longest prefix of u that does not
\* end with a slash.
WithoutTrailingSlashes(u) ==
    LET k == CHOOSE k \in 0..Len(u) :
                 /\ k > 0 => u[k] # Slash
                 /\ \A j \in (k + 1)..Len(u) : u[j] = Slash
    IN  SubSeq(u, 1, k)

HasScheme(u) == HasPrefix(u, HttpPrefix) \/ HasPrefix(u, HttpsPrefix)

\* What the claim says normalizeURL returns for the target u.
ClaimedNormalized(u) ==
    IF HasScheme(u) THEN WithoutTrailingSlashes(u)
    ELSE HttpsPrefix \o WithoutTrailingSlashes(u)

\* The part of the target after its scheme prefix has a character other
\* than the slash.
HasHost(u) ==
    LET rest == IF HasPrefix(u, HttpsPrefix) THEN SubSeq(u, Len(HttpsPrefix) + 1, Len(u))
                ELSE IF HasPrefix(u, HttpPrefix) THEN SubSeq(u, Len(HttpPrefix) + 1, Len(u))
                ELSE u
    IN  \E i \in 1..Len(rest) : rest[i] # Slash

\* C18 as stated: for every target, "https://" is prepended exactly when the
\* target has neither prefix, all trailing slashes are stripped, and
\* normalizing the result again changes nothing.
C18_NormalizeIdempotent ==
    runPC = "calib" =>
        /\ baseURL = ClaimedNormalized(cfg.TargetURL)
        /\ (baseURL = << >> \/ baseURL[Len(baseURL)] # Slash)
        /\ normalizeURL(baseURL) = baseURL

\* C18 amended: the same, for every target that has a character other than
\* the slash after its scheme prefix.
C18_NormalizeIdempotentWithHost ==
    (runPC = "calib" /\ HasHost(cfg.TargetURL)) =>
        /\ baseURL = ClaimedNormalized(cfg.TargetURL)
        /\ (baseURL = << >> \/ baseURL[Len(baseURL)] # Slash)
        /\ normalizeURL(baseURL) = baseURL

\* C18's case: a target without a scheme and with trailing slashes was
\* normalized.
C18_Witness ==
    /\ runPC = "calib"
    /\ HasHost(cfg.TargetURL) /\ ~HasScheme(cfg.TargetURL)
    /\ HasSuffix(cfg.TargetURL, << Slash, Slash >>)
    /\ HasPrefix(baseURL, HttpsPrefix) /\ ~HasSuffix(baseURL, << Slash >>)

\* The classifier's steps in the order the claim gives them, and what each
\* of them matches.
StepOrder == << "error", "code", "server", "size", "soft404", "dynamic" >>

StepMatches(step, r) ==
    CASE step = "error" -> r.err
      [] step = "code" -> r.status = 404 \/ r.status \in cfg.FilterCodes
      [] step = "server" -> r.status >= 500
      [] step = "size" -> r.size \in cfg.ExcludeSizes
      [] step = "soft404" ->
             \E i \in 1..Len(baselines) :
                 \/ r.hash # "" /\ baselines[i].hash = r.hash
                 \/ baselines[i].size > 0 /\ baselines[i].size = r.size
      [] step = "dynamic" ->
             /\ r.status \in {401, 403} /\ r.size < SmallSize
             /\ MapGet(soft404Sizes, r.size) + 1 > Soft404Threshold

\* The first step of the order that matches, "keep" when none does.
FirstMatch(r) ==
    IF \E i \in 1..Len(StepOrder) : StepMatches(StepOrder[i], r)
       THEN StepOrder[CHOOSE i \in 1..Len(StepOrder) :
                          /\ StepMatches(StepOrder[i], r)
                          /\ \A j \in 1..(i - 1) : ~StepMatches(StepOrder[j], r)]
       ELSE "keep"

\* C19: both handlers drop a result at the first of the steps (a) transport
\* error, (b) 404 or filtered code, (c) status >= 500, (d) filtered size,
\* (e) baseline soft-404, (f) dynamic soft-404 that matches it, and go no
\* further: only step (a) counts an error, only a result that passed (a)
\* to (e) is counted by the tracker, and a dropped result is not counted
\* as found, written or registered.
C19_ClassifierOrder ==
    [][ Handled =>
          LET r == Head(results)
              step == FirstMatch(r)
          IN  /\ step # "keep" =>
                    /\ DroppedNow
                    /\ dropLog' = dropLog \cup {[url |-> r.url, status |-> r.status,
                                                  size |-> r.size, hash |-> r.hash,
                                                  step |-> step]}
              /\ step = "keep" => dropLog' = dropLog
              /\ errors' = (IF step = "error" THEN errors + 1 ELSE errors)
              /\ soft404Sizes' # soft404Sizes => step \in {"dynamic", "keep"} ]_vars

\* C19's case: in one run the directory handler dropped a result at the
\* filtered-size step and the file handler dropped one at the baseline
\* step, and nothing was found.
C19_Witness ==
    /\ runPC = "done" /\ found = 0 /\ written = << >> /\ directories = << >>
    /\ \E d, f \in dropLog :
           /\ ~Contains(d.url, ".") /\ d.step = "size"
           /\ Contains(f.url, ".") /\ f.step = "soft404"

\* The final path segment of a URL: what follows its last slash.
RECURSIVE FinalSegment(_)
FinalSegment(u) ==
    IF u = << >> \/ u[Len(u)] = Slash THEN << >>
    ELSE Append(FinalSegment(SubSeq(u, 1, Len(u) - 1)), u[Len(u)])

\* A directory as the claim defines it.
ClaimedIsDirectory(u, st) ==
    \/ st \in {301, 302, 307, 308}
    \/ (u # << >> /\ u[Len(u)] = Slash)
    \/ \A i \in 1..Len(FinalSegment(u)) : FinalSegment(u)[i] # "."

\* The URLs isDirectory is tried on: every URL built, with a slash, with an
\* extension, and with both.
Variants(u) == { u, u \o << Slash >>, u \o << ".", "x" >>, u \o << ".", "x", Slash >>,
                 u \o << ".", "x", Slash, "a" >> }

\* C20: isDirectory(url, status) is true exactly when the status is
\* 301/302/307/308, or the URL ends with a slash, or its final path segment
\* has no '.'; and the scan of the words admin, login, x on a target that
\* answers 200, 404 and 301 finds exactly /admin and /x, both as
\* directories, and drops /login.
C20_DirectoryRule ==
    /\ \A u \in DOMAIN visited : \A v \in Variants(u) :
           \A st \in {200, 301, 302, 307, 308, 403} :
               isDirectory(v, st) <=> ClaimedIsDirectory(v, st)
    /\ runPC = "done" =>
           /\ { [url |-> f.url, status |-> f.status, isDir |-> f.isDir] : f \in foundLog }
                  = { [url |-> At(Admin), status |-> 200, isDir |-> TRUE],
                      [url |-> At(<< "x" >>), status |-> 301, isDir |-> TRUE] }
           /\ found = 2
           /\ { d.url : d \in dropLog } = { At(Login) }

\* C20's case: the three-word scan has run to its end with two workers.
C20_Witness ==
    /\ runPC = "done" /\ cfg.Threads = 2
    /\ processed = 3 /\ found = 2
    /\ DOMAIN heads = { At(Admin), At(Login), At(<< "x" >>) }

\* Run is in phase 3: at its loop over allDirs or inside a scanFiles call.
InPhase3 == runPC = "files" \/ (runPC \in {"wgwait", "reswait"} /\ retPC = "files")

\* C21: every finding of the file-discovery phase is classified as a file,
\* whatever its status and the shape of its URL, and the directory registry
\* does not change from the start of phase 3 to the end of Run.
C21_FilePhaseFindsFiles ==
    [][ /\ (Handled /\ mode = "file") => \A f \in foundLog' \ foundLog : ~f.isDir
        /\ (InPhase3 \/ mode = "file" \/ runPC = "done") => directories' = directories ]_vars

\* C21's case: the file phase found a URL that answered 301, after phase 1
\* had registered a directory.
C21_Witness ==
    /\ runPC = "done"
    /\ directories # << >>
    /\ \E f \in foundLog : f.status = 301 /\ Contains(f.url, ".") /\ ~f.isDir

\* The directories registered by a scan of depth k, as the handler logged
\* them.
RegisteredAt(k) == { TrimRight(f.url) : f \in { g \in foundLog : g.isDir /\ IsRecursable(g.status) /\ g.depth = k } }

\* The URLs of the words of the list beneath directory d, with their slash
\* variants when AddSlash is set.
ChildrenOf(d) ==
    LET bare == { d \o << Slash >> \o cfg.Words[i] : i \in 1..Len(cfg.Words) }
    IN  bare \cup (IF cfg.AddSlash THEN { u \o << Slash >> : u \in bare } ELSE {})

\* The jobs and results of the running pipeline.
TagsInFlight ==
    { jobs[i].depth : i \in 1..Len(jobs) } \cup { results[i].depth : i \in 1..Len(results) }
        \cup { wjob[w].depth : w \in { v \in Workers : wpc[v] \in {"probe", "send"} } }
        \cup { wres[w].depth : w \in { v \in Workers : wpc[v] = "send" } }

\* Every directory scan of depth k >= 1 is the expansion of a directory
\* registered at depth k - 1 with the word list, in a recursive run no
\* deeper than MaxDepth, its jobs and results tagged k.
ExpandsRegistered ==
    /\ \A u \in DOMAIN jobsBuilt :
          visited[u] >= 1 =>
              /\ cfg.Recursive /\ visited[u] <= cfg.MaxDepth
              /\ \E d \in RegisteredAt(visited[u] - 1) : u \in ChildrenOf(d)
              /\ \A j \in 0..(visited[u] - 1) : RegisteredAt(j) # {}
    /\ (mode = "dir" /\ runPC \in {"wgwait", "reswait"}) =>
          /\ TagsInFlight \subseteq {scanDepth}
          /\ \A i \in 1..Len(urls) : visited[urls[i]] = scanDepth
          /\ retPC = "dir" => scanDepth = curDepth /\ curDepth >= 1
    /\ \A f \in foundLog : f.url \in DOMAIN visited /\ (f.isDir => f.depth = visited[f.url])

\* Once phase 2 of an unstopped recursive run is over, every directory
\* registered at a depth below MaxDepth has been expanded with every word.
AllExpanded ==
    (runPC \in {"phase3", "files", "done"} /\ ~ctxDone /\ cfg.Recursive) =>
        \A k \in 1..cfg.MaxDepth : \A d \in RegisteredAt(k - 1) : \A u \in ChildrenOf(d) :
            u \in DOMAIN jobsBuilt /\ visited[u] = k

\* C22: phase 2 goes through the depths 1..MaxDepth in increasing order; at
\* depth k it expands exactly the directories registered at depth k - 1,
\* each with the whole word list, its jobs and results tagged k; when no
\* directory was registered at depth k - 1, nothing is scanned at depth k or
\* deeper.
C22_DepthByDepth ==
    /\ [](ExpandsRegistered /\ AllExpanded)
    /\ [][ /\ curDepth' >= curDepth
           /\ (mode = "dir" /\ mode' = "dir") => scanDepth' >= scanDepth ]_vars

\* C22's case: an unstopped run that expanded directories of two levels and
\* went no further because the second level registered none.
C22_Witness ==
    /\ runPC = "done" /\ ~ctxDone
    /\ cfg.MaxDepth = 3
    /\ RegisteredAt(0) # {} /\ RegisteredAt(1) # {} /\ RegisteredAt(2) = {}
    /\ \E u \in DOMAIN jobsBuilt : visited[u] = 2

\* C23: getDirectoriesAtDepth(k) returns exactly the directories registered
\* with depth k, also when the registry holds entries of two-digit depths
\* (a directory of depth 10 or 11 is not returned for depth 1), and
\* getAllDirectories returns the URL of every entry unchanged, the colon of
\* its scheme included.
C23_RegistryReadBack ==
    /\ \A k \in 0..(DeepDepth + 1) :
          LET ds == getDirectoriesAtDepth(directories, k)
          IN  Range(ds) = RegisteredAt(k) /\ Len(ds) = Cardinality(RegisteredAt(k))
    /\ Range(getAllDirectories(directories)) = UNION { RegisteredAt(k) : k \in 0..(DeepDepth + 1) }
    /\ \A k \in 0..(DeepDepth + 1) : \A u \in RegisteredAt(k) :
          HasPrefix(u, HttpsPrefix) /\ Contains(u, ":")

\* C23's case: the registry holds directories of the depths 1, 10 and 11.
C23_Witness ==
    /\ RegisteredAt(1) # {} /\ RegisteredAt(10) # {} /\ RegisteredAt(11) # {}
    /\ Len(directories) = 12
    /\ runPC = "done"

\* The directories registered so far, at any depth.
AllRegistered == UNION { RegisteredAt(k) : k \in 0..cfg.MaxDepth }

\* The URLs of the words of the list with every extension beneath d.
FileChildrenOf(d) ==
    { d \o << Slash >> \o cfg.Words[i] \o << "." >> \o cfg.Extensions[j] :
          i \in 1..Len(cfg.Words), j \in 1..Len(cfg.Extensions) }

\* Phase 3's targets: the base URL, then the registered URLs, each once, in
\* sorted order.
TargetsOfPhase3 ==
    LET tail == SubSeq(allDirs, 2, Len(allDirs))
    IN  /\ Len(allDirs) >= 1 /\ allDirs[1] = baseURL
        /\ Range(tail) = AllRegistered
        /\ \A i, j \in 1..Len(tail) : i < j => StrLess(tail[i], tail[j])

\* C24: phase 3 runs only when an extension is configured; its targets are
\* the base URL followed by the distinct registered directory URLs in sorted
\* order; for each target, in file mode, a job is built for every
\* (word, extension) pair whose URL was not visited before, and in an
\* unstopped run every target is gone through.
C24_FilePhaseTargets ==
    /\ [](cfg.Extensions = << >> => mode # "file" /\ runPC # "files" /\ allDirs = << >>)
    /\ []((runPC = "files" \/ mode = "file") => TargetsOfPhase3)
    /\ [][ (runPC = "files" /\ dirIdx' = dirIdx + 1) =>
            LET want == FileChildrenOf(TrimRight(allDirs[dirIdx])) \ DOMAIN visited
            IN  /\ DOMAIN jobsBuilt' \ DOMAIN jobsBuilt = want
                /\ DOMAIN visited' = DOMAIN visited \cup want
                /\ want # {} => mode' = "file" /\ Range(urls') = want /\ Len(urls') = Cardinality(want) ]_vars
    /\ []((runPC = "done" /\ ~ctxDone /\ cfg.Extensions # << >>) =>
            /\ TargetsOfPhase3
            /\ \A d \in {baseURL} \cup AllRegistered : FileChildrenOf(d) \subseteq DOMAIN jobsBuilt)

\* C24's case: an unstopped run with an extension whose registry holds a
\* directory twice and /b before /a/a, and that built a file job beneath
\* /a/a.
C24_Witness ==
    /\ runPC = "done" /\ ~ctxDone
    /\ \E i, j \in 1..Len(directories) : i < j /\ directories[i] = directories[j]
    /\ \E i, j \in 1..Len(directories) :
          /\ i < j
          /\ directories[i] = RegistryEntry(0, At(<< "b" >>))
          /\ directories[j] = RegistryEntry(1, At(<< "a", Slash, "a" >>))
    /\ At(<< "a", Slash, "a", Slash, "b", ".", "x" >>) \in DOMAIN jobsBuilt

\* The i-th entry of the word list, trimmed and with one leading slash
\* removed, and whether the directory phase uses it.
Entry(i) == TrimPrefix(TrimSpace(cfg.Words[i]), << Slash >>)

Kept(i) ==
    /\ TrimSpace(cfg.Words[i]) # << >>
    /\ ~HasPrefix(TrimSpace(cfg.Words[i]), << "#" >>)
    /\ ~Contains(Entry(i), ".")

\* A step that is a directory unit of work: phase 1's scan of the base URL
\* or phase 2's scan of dirs[dirIdx].
DirectoryUnitStep ==
    \/ runPC = "calib" /\ runPC' # "calib"
    \/ runPC = "dir" /\ dirIdx' = dirIdx + 1

UnitBase == TrimRight(IF runPC = "calib" THEN baseURL ELSE dirs[dirIdx])

\* The jobs of a directory unit as C25 states them: the bare and slash URLs
\* of the kept entries, minus the visited ones.
JobsAsClaimed(B, V) ==
    LET bare == { B \o << Slash >> \o Entry(i) : i \in { j \in 1..Len(cfg.Words) : Kept(j) } }
    IN  (bare \cup (IF cfg.AddSlash THEN { u \o << Slash >> : u \in bare } ELSE {})) \ V

\* The jobs of a directory unit, entry by entry in list order: an entry
\* whose bare URL is not visited builds it and, when AddSlash is set and it
\* is not visited, its slash variant; an entry whose bare URL is visited
\* builds nothing.
JobsInOrder(B, V) ==
    LET F[i \in 0..Len(cfg.Words)] ==
            IF i = 0 THEN {}
            ELSE LET seen == V \cup F[i - 1]
                     bare == B \o << Slash >> \o Entry(i)
                     builds == Kept(i) /\ bare \notin seen
                 IN  F[i - 1]
                       \cup (IF builds THEN {bare} ELSE {})
                       \cup (IF builds /\ cfg.AddSlash /\ (bare \o << Slash >>) \notin seen
                                THEN {bare \o << Slash >>} ELSE {})
    IN  F[Len(cfg.Words)]

\* No word with a '.' is probed by a directory scan.
NoDottedDirectoryJob ==
    mode = "dir" => \A i \in 1..Len(urls) : ~Contains(SubSeq(urls[i], Len(baseURL) + 1, Len(urls[i])), ".")

\* C25 as stated: a directory unit with base B builds exactly the bare URL
\* B/w and, with AddSlash, B/w/ of every kept entry w, minus the URLs already
\* visited; a word with a '.' is never probed by the directory phase.
C25_DirectoryJobs ==
    /\ [][ DirectoryUnitStep =>
            DOMAIN jobsBuilt' \ DOMAIN jobsBuilt = JobsAsClaimed(UnitBase, DOMAIN visited) ]_vars
    /\ []NoDottedDirectoryJob

\* C25, amended: the slash variant B/w/ is built only together with the bare
\* URL B/w, that is, not for an entry whose bare URL is already visited.
C25_DirectoryJobsInOrder ==
    /\ [][ DirectoryUnitStep =>
            LET want == JobsInOrder(UnitBase, DOMAIN visited)
            IN  /\ DOMAIN jobsBuilt' \ DOMAIN jobsBuilt = want
                /\ DOMAIN visited' = DOMAIN visited \cup want
                /\ want # {} => mode' = "dir" /\ Range(urls') = want
                                 /\ Len(urls') = Cardinality(want) ]_vars
    /\ []NoDottedDirectoryJob

\* C25's case: with AddSlash, the entry "a/" came after "a", so its bare URL
\* /a/ was visited and its slash variant /a// was not built; /b was expanded
\* in phase 2, and the dotted word was probed in phase 3 only, with the
\* extension appended.
C25_Witness ==
    /\ runPC = "done" /\ ~ctxDone
    /\ cfg.AddSlash
    /\ At(<< "a", Slash >>) \in DOMAIN jobsBuilt
    /\ At(<< "a", Slash, Slash >>) \notin DOMAIN visited
    /\ At(<< "b", Slash, "a", Slash >>) \in DOMAIN jobsBuilt
    /\ At(<< "a", ".", "x", ".", "x" >>) \in DOMAIN jobsBuilt

\* The probe made one HEAD, and one GET exactly when it escalated.
CountedOnce(p) ==
    /\ MapGet(heads, p.url) = 1
    /\ MapGet(gets, p.url) = IF p.issued THEN 1 ELSE 0

\* C26: a fast-mode (directory) probe escalates its HEAD to a GET exactly
\* when the HEAD succeeded with a status that is not 404, not filtered, and
\* one of 200, 301, 302, 403; for every other HEAD outcome no GET is issued
\* and the Result carries the HEAD's size and an empty BodyHash.
C26_FastEscalation ==
    \A p \in probeLog :
        p.mode = "dir" =>
            /\ CountedOnce(p)
            /\ p.issued <=> ( /\ ~p.head.err
                              /\ p.head.status # 404
                              /\ p.head.status \notin cfg.FilterCodes
                              /\ p.head.status \in {200, 301, 302, 403} )
            /\ ~p.issued => p.result.size = p.head.size /\ p.result.hash = ""

\* C26's case: a directory probe that escalated (200), and one that did not:
\* a 201 whose Result carries the HEAD's Content-Length -1.
C26_Witness ==
    /\ \E p \in probeLog : p.mode = "dir" /\ p.issued /\ p.head.status = 200 /\ p.result.size = 9
    /\ \E p \in probeLog : p.mode = "dir" /\ ~p.issued /\ p.head.status = 201 /\ p.result.size = -1

\* A file-mode probe issues its HEAD first and escalates to a GET exactly
\* when the HEAD succeeded with a status that is neither 404 nor filtered.
FileEscalation(p) ==
    /\ CountedOnce(p)
    /\ p.issued <=> ( /\ ~p.head.err
                      /\ p.head.status # 404
                      /\ p.head.status \notin cfg.FilterCodes )

\* C27 as stated: ... and the Result of an escalated probe carries the GET's
\* size and hash.
C27_FileEscalation ==
    \A p \in probeLog :
        p.mode = "file" =>
            /\ FileEscalation(p)
            /\ p.issued => p.result.size = p.get.size /\ p.result.hash = p.get.hash

\* C27, amended: the Result carries the GET's size and hash when the GET
\* succeeded, and the HEAD's size and an empty hash when the GET failed.
C27_FileEscalationOnSuccess ==
    \A p \in probeLog :
        p.mode = "file" =>
            /\ FileEscalation(p)
            /\ (p.issued /\ ~p.get.err) =>
                   p.result.size = p.get.size /\ p.result.hash = p.get.hash
            /\ (p.issued /\ p.get.err) =>
                   p.result.size = p.head.size /\ p.result.hash = ""

\* C27's case: a file probe of a 201 (or 500) page escalated and its Result
\* carries the GET's size and hash, and one whose GET failed.
C27_Witness ==
    \E p \in probeLog :
        /\ p.mode = "file" /\ p.issued /\ ~p.get.err
        /\ p.head.status \in {201, 500}
        /\ p.result.size = BodySize("ck") /\ p.head.size = -1 /\ p.result.hash = BodyHash("ck")

\* Calibration is over: every pattern's probe has been made and none is
\* pending.
CalibrationComplete ==
    /\ calPending = {}
    /\ runPC \notin {"init", "calib"}
    /\ \A p \in 1..NumPatterns : MapGet(gets, CalibURL(p)) = 1

\* C28: calibration is a barrier: no job is built and no wordlist URL probed
\* before every calibration probe has completed; the baseline set grows only
\* by appends made while calibration runs, one per successful probe and
\* none lost, and is never modified from the start of phase 1 on.
C28_CalibrationBarrier ==
    /\ []((DOMAIN jobsBuilt # {} \/ probeLog # {} \/ mode # "none") => CalibrationComplete)
    /\ [](runPC \notin {"init", "calib"} => Len(baselines) = Cardinality(calibOK))
    /\ [][ /\ baselines' # baselines =>
                /\ runPC = "calib" /\ runPC' = "calib"
                /\ \E p \in calPending : calPending' = calPending \ {p}
                /\ Len(baselines') = Len(baselines) + 1
                /\ SubSeq(baselines', 1, Len(baselines)) = baselines
           /\ runPC \notin {"init", "calib"} => baselines' = baselines ]_vars

\* C28's case: a finished run that probed wordlist URLs after a calibration
\* in which two of the three probes succeeded.
C28_Witness ==
    /\ runPC = "done"
    /\ Len(baselines) = 2
    /\ probeLog # {}

\* The workers that hold a job: probing it or sending its result.
Busy == { w \in Workers : wpc[w] \in {"probe", "send"} }

\* C29: with T = Threads, at most T probes are in flight, the jobs channel
\* holds at most 4T jobs and the results channel at most 4T results; the
\* producer, at a full jobs channel, does not advance until a worker has
\* dequeued a job or the run is cancelled.
C29_BoundedPipeline ==
    /\ [](/\ Cardinality(Busy) <= cfg.Threads
          /\ Cardinality({ w \in DOMAIN wpc : wpc[w] # "none" }) <= cfg.Threads
          /\ Len(jobs) <= 4 * cfg.Threads
          /\ Len(results) <= 4 * cfg.Threads)
    /\ [][ /\ Len(jobs') > Len(jobs) => Len(jobs) < 4 * cfg.Threads
           /\ Len(results') > Len(results) => Len(results) < 4 * cfg.Threads
           /\ (prodPC = "send" /\ Len(jobs) = 4 * cfg.Threads /\ ~ctxDone) =>
                  prodPC' = "send" /\ prodIdx' = prodIdx ]_vars

\* C29's case: the jobs channel is full and the producer has a URL left to
\* send.
C29_Witness ==
    /\ Len(jobs) = 4 * cfg.Threads
    /\ prodPC = "send" /\ prodIdx <= Len(urls)
    /\ ~ctxDone

\* Every goroutine of the pipelines has ended (or none was started).
PipelineOver ==
    /\ prodPC \in {"none", "done"}
    /\ \A w \in Workers : wpc[w] \in {"none", "exit"}
    /\ hpc \in {"none", "done"}

\* Once the run is cancelled the producer and the workers are never held at
\* a channel operation: the cancellation case of their select is ready.
ProducerAndWorkersObserve ==
    /\ (ctxDone /\ prodPC = "send") => ENABLED Producer
    /\ \A w \in Workers : (ctxDone /\ wpc[w] \in {"idle", "send"}) => ENABLED Worker(w)

\* Once the run is cancelled the consumer is never held at its receive.
ConsumerObserves == (ctxDone /\ hpc = "run") => ENABLED Handler

\* After a cancellation every goroutine of the pipeline ends and Run returns.
CancelledPipelineEnds == ctxDone ~> (runPC = "done" /\ PipelineOver)

ConsumerEndsByClose ==
    /\ resultsClosed => \A w \in Workers : wpc[w] = "exit"
    /\ (hpc = "run" /\ resultsClosed) => ENABLED Handler
    /\ hpc = "done" => resultsClosed /\ results = << >>

HandlerStep == hpc = "run" /\ results # << >> /\ processed' = processed + 1

\* The step drops the handled result at the dynamic tracker.
DroppedByTracker == \E d \in dropLog' \ dropLog : d.step = "dynamic"

\* C31: the tracker counts a result only when its status is 401 or 403, its
\* size is below 100 and it passed the classifier's earlier steps; such a
\* result is kept while its size has been counted at most 10 times, itself
\* included, and dropped from the 11th on; a result of another status or
\* of size 100 or more is never dropped by the tracker and changes no
\* count, whatever the count of its size.
C31_TrackerRule ==
    [][ /\ ~HandlerStep => soft404Sizes' = soft404Sizes
        /\ HandlerStep =>
             LET r == Head(results)
                 counted == r.status \in {401, 403} /\ r.size < 100 /\ ReachesTracker(r)
             IN  IF counted
                 THEN /\ soft404Sizes' = MapInc(soft404Sizes, r.size)
                      /\ DroppedByTracker <=> MapGet(soft404Sizes, r.size) >= 10
                      /\ ~DroppedByTracker /\ PrintResult(cfg.StatusCodes, r.status)
                             => found' = found + 1
                 ELSE /\ soft404Sizes' = soft404Sizes
                      /\ ~DroppedByTracker
                      /\ ReachesTracker(r) /\ PrintResult(cfg.StatusCodes, r.status)
                             => found' = found + 1 ]_vars

\* C31's case: a size counted 11 times, its 11th result dropped by the
\* tracker after ten were found, and a status-200 result of the same size
\* found afterwards with the count left alone.
C31_Witness ==
    /\ runPC = "done"
    /\ \E f \in foundLog :
          /\ f.status = 200
          /\ MapGet(soft404Sizes, f.size) = 11
          /\ \E d \in dropLog : d.step = "dynamic" /\ d.size = f.size
    /\ found = 11

\* A scan starts its goroutines: the workers, the result handler and the
\* job sender.
ScanStarts == runPC # "wgwait" /\ runPC' = "wgwait"

\* C32: a result handler is started only when no earlier handler, worker
\* or job sender is still running, so at most one handler runs at a time;
\* the registry, the output dedup set and the size tracker change only in
\* a step of that handler; the visited set changes only in the step of
\* Run that builds a scan's URLs, which schedules exactly the URLs it
\* found unvisited and inserted, each once.
C32_SingleWriter ==
    [][ /\ ScanStarts =>
             /\ hpc \in {"none", "done"}
             /\ prodPC \in {"none", "done"}
             /\ \A w \in Workers : wpc[w] \in {"none", "exit"}
        /\ (directories' # directories \/ outputURLs' # outputURLs
                \/ written' # written \/ soft404Sizes' # soft404Sizes) => HandlerStep
        /\ visited' # visited =>
             /\ ScanStarts
             /\ DOMAIN visited \subseteq DOMAIN visited'
             /\ Range(urls') = DOMAIN visited' \ DOMAIN visited
             /\ NoRepeat(urls')
             /\ \A u \in Range(urls') : MapGet(jobsBuilt, u) = 0 /\ jobsBuilt'[u] = 1 ]_vars

\* C32's case: the handler of a scan below a registered directory, started
\* after phase 1's handler had written the registry, consumes a result
\* while two workers are at work.
C32_Witness ==
    /\ cfg.Threads = 2
    /\ mode = "dir" /\ scanDepth = 1
    /\ hpc = "run" /\ results # << >>
    /\ \E w \in Workers : wpc[w] = "send"
    /\ directories # << >>
    /\ ~ctxDone

\* The depth tag and the URL of a registry entry "tag:url".
TagOf(e) == SubSeq(e, 1, IndexOf(e, ":") - 1)
URLOf(e) == SubSeq(e, IndexOf(e, ":") + 1, Len(e))

\* C33: the registry only grows, by appending: no step removes or rewrites
\* an entry; every entry's tag is a depth between 0 and MaxDepth; every
\* registered URL has no trailing slash and is a visited URL or a visited
\* URL without its trailing slashes.
C33_RegistryGrows ==
    /\ [][ /\ Len(directories') >= Len(directories)
           /\ SubSeq(directories', 1, Len(directories)) = directories ]_vars
    /\ [](\A i \in 1..Len(directories) :
             LET e == directories[i]
             IN  /\ IndexOf(e, ":") > 1
                 /\ \E k \in 0..cfg.MaxDepth : TagOf(e) = FormatInt(k)
                 /\ ~HasSuffix(URLOf(e), << Slash >>)
                 /\ \E v \in DOMAIN visited : URLOf(e) = TrimRight(v))

\* C33's case: entries of the depths 0, 1 and 2 = MaxDepth, one of them
\* registered from a slash variant whose stripped form was registered
\* before it.
C33_Witness ==
    /\ cfg.MaxDepth = 2
    /\ \A k \in 0..2 : \E i \in 1..Len(directories) : TagOf(directories[i]) = FormatInt(k)
    /\ \E i, j \in 1..Len(directories) : i < j /\ directories[i] = directories[j]
    /\ \E f \in foundLog : HasSuffix(f.url, << Slash >>)
                            /\ RegistryEntry(f.depth, TrimRight(f.url)) \in Range(directories)

\* C34: in every scan, stopped or not, the jobs channel is closed once, by
\* the job sender at the end of its loop, and the results channel once, by
\* the scan after every worker has exited and before it returns; no step
\* sends on a closed channel or closes a closed one.
C34_ChannelsClosedOnce ==
    /\ [][ /\ (~jobsClosed /\ jobsClosed') => (prodPC = "close" /\ prodPC' = "done")
           /\ (prodPC = "close" /\ prodPC' # prodPC) => (~jobsClosed /\ jobsClosed')
           /\ (~resultsClosed /\ resultsClosed') =>
                  /\ runPC = "wgwait" /\ runPC' = "reswait"
                  /\ \A w \in Workers : wpc[w] = "exit"
           /\ (runPC = "wgwait" /\ runPC' # runPC) => (~resultsClosed /\ resultsClosed')
           /\ ~ScanStarts =>
                  /\ jobsClosed => (jobsClosed' /\ Len(jobs') <= Len(jobs))
                  /\ resultsClosed => (resultsClosed' /\ Len(results') <= Len(results)) ]_vars
    /\ [](BetweenScans /\ mode # "none" => resultsClosed)
    /\ (prodPC = "send") ~> jobsClosed
    /\ (runPC = "wgwait") ~> resultsClosed

\* C34's case: a stopped scan whose workers left by the cancellation with a
\* job still buffered, both channels closed and the scan returned.
C34_Witness ==
    /\ ctxDone /\ runPC = "done"
    /\ jobsClosed /\ resultsClosed /\ prodPC = "done"
    /\ jobs # << >>
    /\ \A w \in Workers : wpc[w] = "exit"

\* C35: a result leaves the results channel only by a step of the handler,
\* which counts and classifies it the same way whether or not the run was
\* stopped; the handler ends only at the closed and empty channel, and
\* the scan returns only after it has ended, so every result sent is
\* eventually consumed, and a finding consumed after Stop is still counted,
\* written and registered.
C35_ResultsConsumed ==
    /\ [][ /\ (results' # results /\ Len(results') <= Len(results) /\ ~ScanStarts)
                  => (HandlerStep /\ results' = Tail(results))
           /\ (hpc = "run" /\ hpc' = "done") => (results = << >> /\ resultsClosed)
           /\ (runPC = "reswait" /\ runPC' # runPC) => (hpc = "done" /\ results = << >>)
           /\ HandlerStep =>
                  LET r == Head(results)
                      kept == /\ ReachesTracker(r)
                              /\ ~trackSoft404Size(soft404Sizes, r.size, r.status).drop
                              /\ PrintResult(cfg.StatusCodes, r.status)
                  IN  kept =>
                        /\ found' = found + 1
                        /\ (isReliableResult(r.status) /\ cfg.OutputEnabled
                               /\ TrimRight(r.url) \notin outputURLs)
                              => written' = Append(written, r.url)
                        /\ (mode = "dir" /\ isDirectory(r.url, r.status)
                               /\ r.status \in {200, 301, 302, 307, 308})
                              => Len(directories') = Len(directories) + 1 ]_vars
    /\ (results # << >>) ~> (results = << >> /\ hpc = "run")

\* C35's case: Stop was called and every worker has left while a finding
\* sent before the Stop still waits in the results channel.
C35_Witness ==
    /\ ctxDone
    /\ hpc = "run" /\ results # << >>
    /\ Head(results).status = 200 /\ ~Head(results).err
    /\ \A w \in Workers : wpc[w] = "exit"
    /\ found = 0

\* C36: found + errors never exceeds processed; no counter ever goes down;
\* processed grows by one exactly in the steps that take a result from the
\* results channel, and in no other; and no more URLs were written to the
\* output than results were found.
C36_Counters ==
    /\ [](found + errors <= processed /\ Len(written) <= found)
    /\ [][ /\ found' >= found /\ errors' >= errors /\ processed' >= processed
           /\ processed' = IF results # << >> /\ results' = Tail(results) /\ ~ScanStarts
                               THEN processed + 1 ELSE processed
           /\ found' - found + (errors' - errors) <= processed' - processed
           /\ Len(written') - Len(written) <= found' - found ]_vars

\* C36's case: a finished run that consumed a failed probe and a finding
\* that was written.
C36_Witness ==
    /\ runPC = "done"
    /\ processed = 2 /\ errors = 1 /\ found = 1 /\ Len(written) = 1

\* The probes whose HEAD succeeded and whose escalated GET failed.
GetFailedProbes == { p \in probeLog : ~p.head.err /\ p.issued /\ p.get.err }

\* The results the handlers have dealt with, found or dropped.
HandledResults ==
    { [url |-> f.url, status |-> f.status, size |-> f.size, hash |-> f.hash] : f \in foundLog }
        \cup { [url |-> d.url, status |-> d.status, size |-> d.size, hash |-> d.hash] :
                 d \in dropLog }

\* C37: a probe whose HEAD succeeded and whose escalated GET failed gives
\* one Result with the HEAD's status and size, an empty BodyHash and no
\* error; the handler does not count it as an error and never drops it for
\* a baseline's hash (only for a baseline's size), and when the run is
\* over the Result has been handled and only failed HEADs were counted as
\* errors.
C37_GetFailureKeepsHead ==
    /\ \A p \in GetFailedProbes :
          /\ p.result.status = p.head.status /\ p.result.size = p.head.size
          /\ p.result.hash = "" /\ ~p.result.err
          /\ MapGet(heads, p.url) = 1 /\ MapGet(gets, p.url) = 1
          /\ \A d \in dropLog :
                d.url = p.url =>
                  /\ d.step # "error"
                  /\ d.step = "soft404" =>
                        \E i \in 1..Len(baselines) :
                            baselines[i].size > 0 /\ baselines[i].size = p.head.size
          /\ runPC = "done" =>
                [url |-> p.url, status |-> p.head.status, size |-> p.head.size, hash |-> ""]
                    \in HandledResults
    /\ runPC = "done" => errors = Cardinality({ p \in probeLog : p.head.err })

\* C37's case: on a target whose not-found page comes with status 200, a
\* probe whose GET failed is found, with the HEAD's Content-Length (absent:
\* -1) and no hash, although the page's hash is a baseline's; no error is
\* counted.
C37_Witness ==
    /\ runPC = "done" /\ errors = 0
    /\ \E i \in 1..Len(baselines) : baselines[i].hash = BodyHash("ck")
    /\ \E p \in GetFailedProbes :
          /\ p.head.status = 200 /\ p.head.size = -1
          /\ \E f \in foundLog : f.url = p.url /\ f.hash = "" /\ f.size = -1

\* What a target that answers every URL in one way answers at u.
AnswerAt(u) == IF u \in DOMAIN target.Site THEN target.Site[u] ELSE target.Missing

\* The Result of the probe of u in a directory scan (m = "dir") or a file
\* scan (m = "file") of such a target.
ResultOf(u, m) ==
    LET h == HeadRequest(AnswerAt(u), FALSE)
        needs == IF m = "dir" THEN needsVerificationFast(h.err, h.status, cfg.FilterCodes)
                 ELSE needsVerificationFiles(h.err, h.status, cfg.FilterCodes)
    IN  WorkerResult([url |-> u, depth |-> 0], h, needs, RequestWithBody(AnswerAt(u), FALSE))

\* The Result is one the size tracker counts.
Tracked(r) == r.status \in {401, 403} /\ r.size < 100

\* The Result of u passes the classifier and the printer when the tracker
\* lets it through.
Survives(u, m) ==
    LET r == ResultOf(u, m)
    IN  ReachesTracker(r) /\ PrintResult(cfg.StatusCodes, r.status)

\* The probe of u in a directory scan registers u, whatever else happens.
RegistersByItself(u) ==
    LET r == ResultOf(u, "dir")
    IN  /\ Survives(u, "dir")
        /\ r.status \in {200, 301, 302, 307, 308}
        /\ isDirectory(u, r.status)

\* The URLs probed at each depth, from the configuration, the target and
\* the baselines alone: the words beneath the base URL, then the words
\* beneath what the depth before registers.
ProbedAtDepth[k \in 0..cfg.MaxDepth] ==
    IF k = 0 THEN ChildrenOf(baseURL)
    ELSE IF ~cfg.Recursive THEN {}
    ELSE UNION { ChildrenOf(TrimRight(u)) : u \in { v \in ProbedAtDepth[k - 1] : RegistersByItself(v) } }
            \ UNION { ProbedAtDepth[j] : j \in 0..(k - 1) }

DirectoryProbes == UNION { ProbedAtDepth[k] : k \in 0..cfg.MaxDepth }

RegistryByItself ==
    UNION { { RegistryEntry(k, TrimRight(u)) : u \in { v \in ProbedAtDepth[k] : RegistersByItself(v) } } :
            k \in 0..cfg.MaxDepth }

FileProbes ==
    IF cfg.Extensions = << >> THEN {}
    ELSE UNION { FileChildrenOf(d) : d \in {baseURL} \cup { URLOf(e) : e \in RegistryByItself } }

DroppedBeforeTracker(r) ==
    \E k \in 1..5 : StepMatches(StepOrder[k], r)

\* C39: a handler step on a result that is dropped at one of the steps
\* (a)-(e) adds one to processed, and one to errors when the result carries
\* a transport error, and changes nothing else the engine keeps: not the
\* size tracker, the registry, the output dedup set, the written URLs, the
\* found counter, the visited set or the baselines.
C39_DropFrame ==
    [][ (HandlerStep /\ DroppedBeforeTracker(Head(results))) =>
            /\ soft404Sizes' = soft404Sizes
            /\ directories' = directories
            /\ outputURLs' = outputURLs /\ written' = written
            /\ found' = found /\ foundLog' = foundLog
            /\ visited' = visited /\ baselines' = baselines
            /\ processed' = processed + 1
            /\ errors' = IF Head(results).err THEN errors + 1 ELSE errors ]_vars

\* C39's case: a filtered 403 with a short body, a result the tracker
\* would count, was dropped at step (b), and the tracker is empty at the
\* end of the run.
C39_Witness ==
    /\ runPC = "done"
    /\ \E d \in dropLog : d.step = "code" /\ d.status = 403 /\ d.size < 100
    /\ \E d \in dropLog : d.step = "error"
    /\ DOMAIN soft404Sizes = {}
    /\ processed = 2 /\ errors = 1 /\ found = 0

\* The printer accepts the status as the claim states it: every status
\* when StatusCodes is empty, otherwise the statuses in StatusCodes.
Accepted(st) == cfg.StatusCodes = {} \/ st \in cfg.StatusCodes

\* C40: a handler step on a result that survives every classifier step
\* counts it as found, writes it (reliable status, output enabled, new key)
\* and registers it (directory scan, directory, recursable status) when the
\* printer accepts its status, and does none of these when StatusCodes is
\* non-empty and does not hold the status.
C40_PrinterGate ==
    [][ (HandlerStep /\ FirstMatch(Head(results)) = "keep") =>
            LET r == Head(results)
            IN  IF Accepted(r.status)
                THEN /\ found' = found + 1
                     /\ (r.status \in {200, 301, 302, 307, 308, 401, 403} /\ cfg.OutputEnabled)
                           => /\ TrimRight(r.url) \in outputURLs'
                              /\ TrimRight(r.url) \notin outputURLs => written' = Append(written, r.url)
                     /\ (mode = "dir" /\ isDirectory(r.url, r.status)
                            /\ r.status \in {200, 301, 302, 307, 308})
                           => directories' = Append(directories,
                                                    RegistryEntry(scanDepth, TrimRight(r.url)))
                ELSE /\ found' = found /\ foundLog' = foundLog
                     /\ written' = written /\ outputURLs' = outputURLs
                     /\ directories' = directories ]_vars

\* C40's case: with StatusCodes = {200, 301}, a run of three probes whose
\* directory probe was found, written and registered, one of whose file
\* probes was dropped, and whose other file probe survived the classifier
\* with a status outside StatusCodes and was not counted.
C40_Witness ==
    /\ runPC = "done"
    /\ cfg.StatusCodes # {}
    /\ processed = 3 /\ errors = 0 /\ Cardinality(dropLog) = 1
    /\ found = 1 /\ Len(written) = 1 /\ Len(directories) = 1

====
